---- MODULE Spec2Model ----
(***************************************************************************)
(* TPVToggle: the patch executor (toggle_thread.cpp), the key polling loop *)
(* (toggle_thread.cpp) and the hook install / unwind sequence              *)
(* (dllmain.cpp), as state machines.                                       *)
(***************************************************************************)
EXTENDS Integers, Sequences, FiniteSets, TLC

(* ------------------------------------------------------------------------ *)
(* Program constants and model bounds                                       *)
(* ------------------------------------------------------------------------ *)

\* Constants::TOGGLE_FLAG_OFFSET = 0x38
TOGGLE_FLAG_OFFSET == 56

\* BYTE values are 0..255; the model keeps 0, 1 and the values up to MaxByte.
MaxByte == 2

\* Number of distinct captured R9 values whose flag byte lies in user memory.
NumUserPtrs == 1

Bytes == 0..MaxByte

\* Captured R9 values pointing to a structure in user address space.
UserPtrs == 1..NumUserPtrs

\* A captured R9 value whose flag address lies outside the user address
\* space: VirtualQuery returns 0 for it.
KernelPtr == NumUserPtrs + 1

\* Every value the detour may store into the captured-pointer cell.
Captured == 0..KernelPtr

\* Page conditions VirtualQuery can report for a user-space address:
\*   "rw"   MEM_COMMIT with a writable protection
\*   "ro"   MEM_COMMIT, readable, not writable
\*   "free" not committed
PageStates == {"rw", "ro", "free"}

VARIABLES
    g_r9_for_tpv_flag,  \* "null" or "storage": the global pointer to the cell
    storage,            \* "none", "live" or "freed": the VirtualAlloc'ed word
    cell,               \* the captured R9 value held in the storage word
    mem,                \* target-process bytes, by address
    page,               \* condition of the page holding each user structure
    pc,                 \* position of the thread running the patch executor
    fn,                 \* entry point of the running call
    new_state,          \* setViewState's new_state argument
    r9_value,           \* setViewState's local r9_value (-1: not read yet)
    tg_r9,              \* safeToggleViewState's local r9_value (-1: not read)
    ret,                \* return value of the completed call
    acc,                \* what the running call did to target memory
    noise,              \* what other parties did during the running call
    streak,             \* the preceding undisturbed setViewState call, if any
    second,             \* the running call repeats the streak's call
    flags,              \* the flag byte when a caller's running / last toggle began
    stored,             \* the values recorded detour invocations have stored
    g_tpvHookAddress,   \* 0 (nullptr) or the hook target address
    fpTPV_OriginalCode, \* "null" or "continuation"
    mh,                 \* the hooking facility: initialized, hook target, enabled
    mpc,                \* position of MainThread
    tries,              \* MainThread's module lookup counter i
    main_ret,           \* MainThread's return value (-1: not returned)
    toggle_started,     \* CreateThread(ToggleThread) succeeded
    cpc,                \* position inside CleanupResources, per calling thread
    dpc,                \* position of DllMain(DLL_PROCESS_DETACH)
    failed_at,          \* the initialization step that failed, if any
    mhlog,              \* last status of the facility's unwind operations
    cinfo,              \* what the running / last CleanupResources call did
    dirty,              \* something was acquired since the last cleanup ended
    toggle_keys,        \* ToggleThread's list of Toggle key codes
    fpv_keys,           \* ToggleThread's list of ForceFirstPerson key codes
    tpv_keys,           \* ToggleThread's list of ForceThirdPerson key codes
    key_was_down,       \* ToggleThread's map: key code -> last sampled state
    lpc,                \* position of ToggleThread
    lset,               \* the key list the poll cycle is iterating over
    lidx,               \* index of the key being processed in that list
    down,               \* the local "down" of the key being processed
    action,             \* the local "action" of the poll cycle
    cycle,              \* number of the running poll cycle
    samples,            \* per cycle, the state sampled for the first Toggle key
    fired,              \* the cycles in which safeToggleViewState was invoked
    hits,               \* the actions that returned in the cycle, in order
    aob_pattern,        \* config.aob_pattern: the tokens of the AOB string
    image               \* the bytes of the game module, from its base on

storageVars == <<g_r9_for_tpv_flag, storage>>
envVars == <<cell, mem, page>>
execVars == <<pc, fn, new_state, r9_value, tg_r9, ret>>
ghostVars == <<acc, noise, streak, second, flags, stored>>
hookVars == <<g_tpvHookAddress, fpTPV_OriginalCode, mh>>
mainVars == <<mpc, tries, main_ret, toggle_started>>
cleanVars == <<cpc, dpc>>
hookGhost == <<failed_at, mhlog, cinfo, dirty>>
initVars == <<hookVars, mainVars, cleanVars, hookGhost>>
keyVars == <<toggle_keys, fpv_keys, tpv_keys>>
pollVars == <<key_was_down, lpc, lset, lidx, down, action, cycle>>
pollGhost == <<samples, fired, hits>>
loopVars == <<keyVars, pollVars, pollGhost>>
inputVars == <<aob_pattern, image>>
vars == <<storageVars, envVars, execVars, ghostVars, initVars, loopVars,
          inputVars>>

(* ------------------------------------------------------------------------ *)
(* Target-process memory                                                    *)
(* ------------------------------------------------------------------------ *)

\* flag_addr = r9_value + Constants::TOGGLE_FLAG_OFFSET
FlagAddr(r9) == r9 + TOGGLE_FLAG_OFFSET

UserFlagAddrs == {FlagAddr(p) : p \in UserPtrs}

\* The modelled bytes: each user structure's first byte and its flag byte.
MemAddrs == UserPtrs \cup UserFlagAddrs

\* The user structure whose page holds address a.
PageOf(a) == IF a \in UserPtrs THEN a ELSE a - TOGGLE_FLAG_OFFSET

\* VirtualQuery(flag_addr, &mem_info, ...): "fail" when it returns 0, else the
\* State/Protect it reports. Addresses below the first user structure are on
\* the never-mapped null page.
VirtualQuery(a) ==
    IF a \in MemAddrs THEN page[PageOf(a)]
    ELSE IF a >= FlagAddr(KernelPtr) THEN "fail"
    ELSE "free"

IsCommitted(info) == info \in {"rw", "ro"}
IsWritable(info) == info = "rw"

\* IsBadReadPtr(flag_addr, 1): nonzero when the byte cannot be read.
IsBadReadPtr(a) == ~IsCommitted(VirtualQuery(a))

\* Whether a load / a store at address a completes without an access violation.
CanRead(a) == IsCommitted(VirtualQuery(a))
CanWrite(a) == IsWritable(VirtualQuery(a))

(* ------------------------------------------------------------------------ *)
(* Bookkeeping of a call                                                    *)
(* ------------------------------------------------------------------------ *)

NoAccess == [query |-> "none", touched |-> FALSE, writes |-> <<>>]
NoStreak == [v |-> -1, w |-> 0]
NoFlags == [before |-> -1, origin |-> -1]

\* A write attempt: the address, the value and the page condition at the store.
WriteRec(a, v) == [a |-> a, v |-> v, pg |-> VirtualQuery(a)]

\* return r; from the running call.
Return(r) ==
    /\ pc' = "done"
    /\ ret' = r

\* The flag byte the captured pointer designates (-1: none in user memory).
FlagNow == IF cell \in UserPtrs THEN mem[FlagAddr(cell)] ELSE -1

\* A call starts: the locals are fresh.
Enter(f, v, first) ==
    /\ pc = "idle"
    /\ pc' = first
    /\ fn' = f
    /\ new_state' = v
    /\ r9_value' = -1
    /\ tg_r9' = -1
    /\ ret' = FALSE
    /\ acc' = NoAccess
    /\ noise' = "none"
    /\ second' = (f = "setViewState" /\ streak.v = v)
    /\ UNCHANGED <<initVars, inputVars>>
    /\ UNCHANGED <<storageVars, envVars, streak>>

(* ------------------------------------------------------------------------ *)
(* Entry points (toggle_thread.h)                                           *)
(* ------------------------------------------------------------------------ *)

\* setViewState(new_state, ...)
SetViewState(v) == Enter("setViewState", v, "sv_ptr")

\* setFirstPersonView: return setViewState(0, "Set FPV", key_pressed_vk);
SetFirstPersonView == Enter("setFirstPersonView", 0, "sv_ptr")

\* SetThirdPersonView that asks for the first-person value.
SetThirdPersonViewStoresZero == Enter("setThirdPersonView", 0, "sv_ptr")

\* setThirdPersonView: return setViewState(1, "Set TPV", key_pressed_vk);
SetThirdPersonView == Enter("setThirdPersonView", 1, "sv_ptr")

\* safeToggleViewState(key_pressed_vk)
SafeToggleViewState == Enter("safeToggleViewState", 0, "tg_ptr")

\* A caller other than ToggleThread calls an entry point; before a toggle it
\* notes the flag byte.
CallSetViewState ==
    /\ \E v \in Bytes : SetViewState(v)
    /\ UNCHANGED <<loopVars, flags, stored>>

CallFirstPerson == SetFirstPersonView /\ UNCHANGED <<loopVars, flags, stored>>

CallThirdPerson == SetThirdPersonView /\ UNCHANGED <<loopVars, flags, stored>>

CallToggle ==
    /\ SafeToggleViewState
    /\ flags' = [flags EXCEPT !.before = FlagNow]
    /\ UNCHANGED <<loopVars, stored>>

(* ------------------------------------------------------------------------ *)
(* setViewState (toggle_thread.cpp)                                         *)
(* ------------------------------------------------------------------------ *)

\* 1. if (!g_r9_for_tpv_flag) return false;
SvPtr ==
    /\ pc = "sv_ptr"
    /\ IF g_r9_for_tpv_flag = "null"
       THEN Return(FALSE)
       ELSE pc' = "sv_cell" /\ ret' = ret
    /\ UNCHANGED <<initVars, loopVars, inputVars>>
    /\ UNCHANGED <<storageVars, envVars, fn, new_state, r9_value, tg_r9, ghostVars>>

\* CellIsSet without the check: every captured value passes.
CellIsSetNoCheck(v) == TRUE

\* if (r9_value == 0) return false;
CellIsSet(v) == v # 0

\* What a load of *g_r9_for_tpv_flag can give: the cell's value while the
\* storage is allocated. Once VirtualFree has released the page the load is
\* undefined: it raises an access violation (outside any try block), or, when
\* the address range has been handed out again, it gives whatever is there.
CellLoads == IF storage = "live" THEN {cell} ELSE Captured
CellLoadFaults == storage # "live"

\* 2.-4. r9_value = *g_r9_for_tpv_flag; the zero check; flag_addr.
SvCell ==
    /\ pc = "sv_cell"
    /\ \/ \E v \in CellLoads :
            /\ r9_value' = v
            /\ IF CellIsSet(v)
               THEN pc' = "sv_query" /\ ret' = ret
               ELSE Return(FALSE)
       \/ /\ CellLoadFaults
          /\ pc' = "crashed"
          /\ UNCHANGED <<r9_value, ret>>
    /\ UNCHANGED <<initVars, loopVars, inputVars>>
    /\ UNCHANGED <<storageVars, envVars, fn, new_state, tg_r9, ghostVars>>

\* PageOk without the protection test.
PageOkCommittedOnly(info) == IsCommitted(info)

\* mem_info.State == MEM_COMMIT && is_writable
PageOk(info) == IsCommitted(info) /\ IsWritable(info)

\* 5. VirtualQuery and the State / Protect check.
SvQuery ==
    /\ pc = "sv_query"
    /\ LET info == VirtualQuery(FlagAddr(r9_value)) IN
        /\ acc' = [acc EXCEPT !.query = info, !.touched = TRUE]
        /\ IF info = "fail" \/ ~PageOk(info)
           THEN Return(FALSE)
           ELSE pc' = "sv_read" /\ ret' = ret
    /\ UNCHANGED <<initVars, loopVars, inputVars>>
    /\ UNCHANGED <<storageVars, envVars, fn, new_state, r9_value, tg_r9,
                   noise, streak, second, flags, stored>>

\* NeedsWrite without the comparison: the store is unconditional.
NeedsWriteAlways(current_value, v) == TRUE

\* if (current_value != new_state)
NeedsWrite(current_value, v) == current_value # v

\* 6. BYTE current_value = *flag_addr; and the comparison with new_state.
SvRead ==
    /\ pc = "sv_read"
    /\ LET a == FlagAddr(r9_value) IN
        /\ acc' = [acc EXCEPT !.touched = TRUE]
        /\ IF ~CanRead(a)
           THEN pc' = "fault" /\ ret' = ret
           ELSE IF NeedsWrite(mem[a], new_state)
                THEN pc' = "sv_write" /\ ret' = ret
                ELSE Return(TRUE)
    /\ UNCHANGED <<initVars, loopVars, inputVars>>
    /\ UNCHANGED <<storageVars, envVars, fn, new_state, r9_value, tg_r9,
                   noise, streak, second, flags, stored>>

\* StoreAddr without the flag offset.
StoreAddrNoOffset(r9) == r9

\* The address of the store *flag_addr = new_state.
StoreAddr(r9) == FlagAddr(r9)

\* *flag_addr = new_state; return true;
SvWrite ==
    /\ pc = "sv_write"
    /\ LET a == StoreAddr(r9_value) IN
        /\ acc' = [acc EXCEPT !.touched = TRUE,
                              !.writes = Append(@, WriteRec(a, new_state))]
        /\ IF CanWrite(a)
           THEN mem' = [mem EXCEPT ![a] = new_state] /\ Return(TRUE)
           ELSE mem' = mem /\ pc' = "fault" /\ ret' = ret
    /\ UNCHANGED <<initVars, loopVars, inputVars>>
    /\ UNCHANGED <<storageVars, cell, page, fn, new_state, r9_value, tg_r9,
                   noise, streak, second, flags, stored>>

\* An access violation raised by a load or store inside a try block. Whether
\* catch (...) sees it depends on the build's exception model: it is caught
\* (return false) or it terminates the process.
Fault ==
    /\ pc = "fault"
    /\ \E caught \in BOOLEAN :
        IF caught THEN Return(FALSE) ELSE pc' = "crashed" /\ ret' = ret
    /\ UNCHANGED <<initVars, loopVars, inputVars>>
    /\ UNCHANGED <<storageVars, envVars, fn, new_state, r9_value, tg_r9, ghostVars>>

(* ------------------------------------------------------------------------ *)
(* safeToggleViewState (toggle_thread.cpp)                                  *)
(* ------------------------------------------------------------------------ *)

\* if (!g_r9_for_tpv_flag || ...) return false;
TgPtr ==
    /\ pc = "tg_ptr"
    /\ IF g_r9_for_tpv_flag = "null"
       THEN Return(FALSE)
       ELSE pc' = "tg_cell" /\ ret' = ret
    /\ UNCHANGED <<initVars, loopVars, inputVars>>
    /\ UNCHANGED <<storageVars, envVars, fn, new_state, r9_value, tg_r9, ghostVars>>

\* (r9_value = *g_r9_for_tpv_flag) == 0
TgCell ==
    /\ pc = "tg_cell"
    /\ \/ \E v \in CellLoads :
            /\ tg_r9' = v
            /\ IF CellIsSet(v)
               THEN pc' = "tg_probe" /\ ret' = ret
               ELSE Return(FALSE)
       \/ /\ CellLoadFaults
          /\ pc' = "crashed"
          /\ UNCHANGED <<tg_r9, ret>>
    /\ UNCHANGED <<initVars, loopVars, inputVars>>
    /\ UNCHANGED <<storageVars, envVars, fn, new_state, r9_value, ghostVars>>

\* if (IsBadReadPtr(flag_addr, sizeof(BYTE))) throw ...; caught: return false.
TgProbe ==
    /\ pc = "tg_probe"
    /\ acc' = [acc EXCEPT !.touched = TRUE]
    /\ IF IsBadReadPtr(FlagAddr(tg_r9))
       THEN Return(FALSE)
       ELSE pc' = "tg_read" /\ ret' = ret
    /\ UNCHANGED <<initVars, loopVars, inputVars>>
    /\ UNCHANGED <<storageVars, envVars, fn, new_state, r9_value, tg_r9,
                   noise, streak, second, flags, stored>>

\* Opposite that flips the lowest bit of the byte read (current_value ^ 1).
OppositeFlipsBit(current_value) ==
    IF current_value % 2 = 0 THEN current_value + 1 ELSE current_value - 1

\* Opposite that tests for 1 instead of 0.
OppositeOfOne(current_value) == IF current_value = 1 THEN 0 ELSE 1

\* BYTE new_value = (current_value == 0) ? 1 : 0;
Opposite(current_value) == IF current_value = 0 THEN 1 ELSE 0

\* TgRead that stores the new value itself before it delegates.
TgReadStores ==
    /\ pc = "tg_read"
    /\ LET a == FlagAddr(tg_r9) IN
        /\ acc' = [acc EXCEPT !.touched = TRUE]
        /\ IF ~CanRead(a)
           THEN pc' = "fault" /\ new_state' = new_state /\ mem' = mem
           ELSE /\ pc' = "sv_ptr"
                /\ new_state' = Opposite(mem[a])
                /\ mem' = [mem EXCEPT ![a] = Opposite(mem[a])]
    /\ UNCHANGED <<initVars, loopVars, inputVars>>
    /\ UNCHANGED <<storageVars, cell, page, fn, r9_value, tg_r9, ret,
                   noise, streak, second, flags, stored>>

\* current_value = *flag_addr; then setViewState(new_value, "Toggle", ...).
TgRead ==
    /\ pc = "tg_read"
    /\ LET a == FlagAddr(tg_r9) IN
        /\ acc' = [acc EXCEPT !.touched = TRUE]
        /\ IF ~CanRead(a)
           THEN pc' = "fault" /\ new_state' = new_state
           ELSE pc' = "sv_ptr" /\ new_state' = Opposite(mem[a])
    /\ UNCHANGED <<initVars, loopVars, inputVars>>
    /\ UNCHANGED <<storageVars, envVars, fn, r9_value, tg_r9, ret,
                   noise, streak, second, flags, stored>>

(* ------------------------------------------------------------------------ *)
(* The caller takes the result                                              *)
(* ------------------------------------------------------------------------ *)

\* The call was setViewState(v) with a captured pointer, on a committed
\* writable page, and nobody else acted while it ran.
Undisturbed ==
    /\ fn = "setViewState"
    /\ noise = "none"
    /\ cell # 0
    /\ VirtualQuery(FlagAddr(cell)) = "rw"

\* The call was a successful safeToggleViewState and nobody else changed the
\* cell or a byte while it ran.
CleanToggle ==
    /\ fn = "safeToggleViewState"
    /\ ret = TRUE
    /\ noise # "data"

\* The call has returned: its locals are gone.
Leave ==
    /\ pc = "done"
    /\ pc' = "idle"
    /\ fn' = "none"
    /\ new_state' = 0
    /\ r9_value' = -1
    /\ tg_r9' = -1
    /\ ret' = FALSE
    /\ acc' = NoAccess
    /\ noise' = "none"
    /\ second' = FALSE
    /\ streak' = IF Undisturbed
                 THEN [v |-> new_state, w |-> Len(acc.writes)]
                 ELSE NoStreak
    /\ UNCHANGED <<initVars, inputVars>>
    /\ UNCHANGED <<storageVars, envVars>>

\* A caller other than ToggleThread takes the result, and remembers the flag
\* byte a clean toggle began with when that was 0 or 1.
Finish ==
    /\ Leave
    /\ flags' = [before |-> -1,
                 origin |-> IF CleanToggle /\ flags.before \in {0, 1}
                            THEN flags.before ELSE -1]
    /\ UNCHANGED <<loopVars, stored>>

(* ------------------------------------------------------------------------ *)
(* The host process                                                         *)
(* ------------------------------------------------------------------------ *)

\* Another party acted: kind is "data" (the cell or a byte changed) or "page".
Disturb(kind) ==
    /\ pc # "crashed"
    /\ noise' = IF pc = "idle" THEN "none"
                ELSE IF kind = "data" \/ noise = "data" THEN "data"
                ELSE "page"
    /\ streak' = NoStreak
    /\ flags' = [flags EXCEPT !.origin = IF kind = "data" THEN -1 ELSE @]
    /\ UNCHANGED <<acc, second>>

\* The store of TPV_CaptureR9_Detour: the whole of R9 goes into the word
\* g_r9_for_tpv_flag points to.
CaptureR9 ==
    /\ g_r9_for_tpv_flag = "storage"
    /\ storage = "live"
    /\ \E p \in Captured \ {cell} : cell' = p
    /\ Disturb("data")
    /\ UNCHANGED <<initVars, loopVars, inputVars>>
    /\ UNCHANGED <<storageVars, mem, page, execVars>>

\* TPV_CaptureR9_Detour: stores R9 into *g_r9_for_tpv_flag.
Detour == CaptureR9 /\ stored' = stored

\* A detour invocation whose stored value is recorded.
RecordedDetour == CaptureR9 /\ stored' = stored \cup {cell'}

\* The host unmaps, maps or re-protects the page of a user structure.
HostProtect ==
    /\ \E p \in UserPtrs, s \in PageStates :
        /\ s # page[p]
        /\ page' = [page EXCEPT ![p] = s]
    /\ Disturb("page")
    /\ UNCHANGED <<initVars, loopVars, inputVars>>
    /\ UNCHANGED <<storageVars, cell, mem, execVars, stored>>

\* The game itself writes the flag byte.
HostWrite ==
    /\ \E p \in UserPtrs, b \in Bytes :
        LET a == FlagAddr(p) IN
        /\ page[p] = "rw"
        /\ b # mem[a]
        /\ mem' = [mem EXCEPT ![a] = b]
    /\ Disturb("data")
    /\ UNCHANGED <<initVars, loopVars, inputVars>>
    /\ UNCHANGED <<storageVars, cell, page, execVars, stored>>

(* ------------------------------------------------------------------------ *)
(* ToggleThread (toggle_thread.cpp): the key polling loop                   *)
(* ------------------------------------------------------------------------ *)

\* Virtual-key codes a configuration may name (VK_F3).
Keys == {114}

\* The key lists a ToggleData may hold.
KeyLists == {<<>>} \cup {<<k>> : k \in Keys}

\* Number of poll cycles the model follows.
MaxCycles == 5

\* The three for loops of a poll cycle, in program order.
KeySets == {"toggle", "fpv", "tpv"}

KeysOf(s) ==
    CASE s = "toggle" -> toggle_keys
      [] s = "fpv" -> fpv_keys
      [] s = "tpv" -> tpv_keys

ConfiguredKeys ==
    {toggle_keys[i] : i \in 1..Len(toggle_keys)}
    \cup {fpv_keys[i] : i \in 1..Len(fpv_keys)}
    \cup {tpv_keys[i] : i \in 1..Len(tpv_keys)}

\* Noop with the check left out: the polling loop is always entered.
NoopNever == FALSE

\* bool noop = toggle_keys.empty() && fpv_keys.empty() && tpv_keys.empty();
Noop == toggle_keys = <<>> /\ fpv_keys = <<>> /\ tpv_keys = <<>>

\* The thread starts: with no key it idles, else it fills key_was_down with
\* false for every configured key and enters the polling loop.
TtStart ==
    /\ lpc = "start"
    /\ IF Noop
       THEN /\ lpc' = "noop_idle"
            /\ UNCHANGED <<key_was_down, cycle>>
       ELSE /\ lpc' = "poll"
            /\ key_was_down' = [k \in ConfiguredKeys |-> FALSE]
            /\ cycle' = 1
    /\ UNCHANGED <<storageVars, envVars, execVars, ghostVars, initVars,
                   inputVars, keyVars, lset, lidx, down, action, pollGhost>>

\* while (true) { Sleep(5000); }
TtIdle ==
    /\ lpc = "noop_idle"
    /\ UNCHANGED vars

\* JustPressed that fires as long as the key is down.
JustPressedLevel(d, was) == d

\* if (down && !key_was_down[vk])
JustPressed(d, was) == d /\ ~was

\* The action of each of the three for loops.
Invoke(s) ==
    CASE s = "toggle" -> SafeToggleViewState
      [] s = "fpv" -> SetFirstPersonView
      [] s = "tpv" -> SetThirdPersonView

\* One key of a for loop: sample GetAsyncKeyState(vk); on a rising edge call
\* the action, else store the sample in key_was_down.
TtSample ==
    /\ lpc = "poll"
    /\ lidx <= Len(KeysOf(lset))
    /\ LET vk == KeysOf(lset)[lidx] IN
       \E d \in BOOLEAN :
        /\ down' = d
        /\ samples' = IF lset = "toggle" /\ lidx = 1 THEN Append(samples, d)
                      ELSE samples
        /\ IF JustPressed(d, key_was_down[vk])
           THEN /\ Invoke(lset)
                /\ UNCHANGED <<flags, stored>>
                /\ lpc' = "in_action"
                /\ fired' = IF lset = "toggle" THEN Append(fired, cycle)
                            ELSE fired
                /\ UNCHANGED <<key_was_down, lidx>>
           ELSE /\ key_was_down' = [key_was_down EXCEPT ![vk] = d]
                /\ lidx' = lidx + 1
                /\ UNCHANGED <<storageVars, envVars, execVars, ghostVars,
                               initVars, lpc, fired>>
    /\ UNCHANGED <<inputVars, keyVars, lset, action, cycle, hits>>

\* action = true; key_was_down[vk] = down; after the action returned.
ReturnToLoop ==
    /\ lpc = "in_action"
    /\ Leave
    /\ UNCHANGED <<flags, stored>>
    /\ action' = TRUE
    /\ key_was_down' = [key_was_down EXCEPT ![KeysOf(lset)[lidx]] = down]
    /\ lidx' = lidx + 1
    /\ lpc' = "poll"
    /\ UNCHANGED <<inputVars, keyVars, lset, down, cycle, samples, fired>>

\* The return of an action, recorded: which for loop called it and what it
\* returned; the record starts anew with the first action of a cycle.
RecordedReturn ==
    /\ ReturnToLoop
    /\ LET h == [s |-> lset, ok |-> ret] IN
        hits' = IF action THEN Append(hits, h) ELSE <<h>>

\* TtReturn that stores the sample only when the action succeeded.
TtReturnStoresOnSuccess ==
    /\ lpc = "in_action"
    /\ Leave
    /\ UNCHANGED <<flags, stored>>
    /\ action' = TRUE
    /\ key_was_down' = [key_was_down EXCEPT ![KeysOf(lset)[lidx]] = down /\ ret]
    /\ lidx' = lidx + 1
    /\ lpc' = "poll"
    /\ UNCHANGED <<inputVars, keyVars, lset, down, cycle, pollGhost>>

\* TtReturn without key_was_down[vk] = down: a key that fired keeps its old
\* last-seen state.
TtReturnKeepsLastSeen ==
    /\ lpc = "in_action"
    /\ Leave
    /\ UNCHANGED <<flags, stored>>
    /\ action' = TRUE
    /\ lidx' = lidx + 1
    /\ lpc' = "poll"
    /\ UNCHANGED <<inputVars, keyVars, key_was_down, lset, down, cycle,
                   pollGhost>>

\* The action has returned (its result is ignored): action = true;
\* key_was_down[vk] = down; and on to the next key.
TtReturn == ReturnToLoop /\ hits' = hits

\* TtNextList with the ForceThirdPerson loop before the ForceFirstPerson loop.
TtNextListTpvFirst ==
    /\ lpc = "poll"
    /\ lidx > Len(KeysOf(lset))
    /\ lidx' = 1
    /\ IF lset = "fpv"
       THEN lpc' = "sleep" /\ lset' = "tpv"
       ELSE lpc' = lpc /\ lset' = (IF lset = "toggle" THEN "tpv" ELSE "fpv")
    /\ UNCHANGED <<storageVars, envVars, execVars, ghostVars, initVars,
                   inputVars, keyVars, key_was_down, down, action, cycle, pollGhost>>

\* A for loop is over: the next one starts, or the cycle's Sleep is reached.
TtNextList ==
    /\ lpc = "poll"
    /\ lidx > Len(KeysOf(lset))
    /\ lidx' = 1
    /\ IF lset = "tpv"
       THEN lpc' = "sleep" /\ lset' = lset
       ELSE lpc' = lpc /\ lset' = (IF lset = "toggle" THEN "fpv" ELSE "tpv")
    /\ UNCHANGED <<storageVars, envVars, execVars, ghostVars, initVars,
                   inputVars, keyVars, key_was_down, down, action, cycle, pollGhost>>

\* Sleep(action ? 15 : 50); and the next cycle begins.
TtSleep ==
    /\ lpc = "sleep"
    /\ cycle < MaxCycles
    /\ cycle' = cycle + 1
    /\ lpc' = "poll"
    /\ lset' = "toggle"
    /\ action' = FALSE
    /\ UNCHANGED <<storageVars, envVars, execVars, ghostVars, initVars,
                   inputVars, keyVars, key_was_down, lidx, down, pollGhost>>

ToggleThread == TtStart \/ TtIdle \/ TtSample \/ TtReturn \/ TtNextList \/ TtSleep

(* ------------------------------------------------------------------------ *)
(* Initial values of the patch side                                         *)
(* ------------------------------------------------------------------------ *)

\* ToggleThread's locals before its first statement.
InitPoll ==
    /\ key_was_down = [k \in {} |-> FALSE]
    /\ lset = "toggle"
    /\ lidx = 1
    /\ down = FALSE
    /\ action = FALSE
    /\ cycle = 0
    /\ samples = <<>>
    /\ fired = <<>>
    /\ hits = <<>>

\* ToggleThread does not exist.
InitNoLoop ==
    /\ toggle_keys = <<>>
    /\ fpv_keys = <<>>
    /\ tpv_keys = <<>>
    /\ lpc = "none"
    /\ InitPoll

\* The AOB string and the module image are left out.
InitNoScan ==
    /\ aob_pattern = <<>>
    /\ image = <<>>

InitExecutor ==
    /\ pc = "idle"
    /\ fn = "none"
    /\ new_state = 0
    /\ r9_value = -1
    /\ tg_r9 = -1
    /\ ret = FALSE
    /\ acc = NoAccess
    /\ noise = "none"
    /\ streak = NoStreak
    /\ second = FALSE
    /\ flags = NoFlags
    /\ stored = {}

InitTarget ==
    /\ mem = [a \in MemAddrs |-> 0]
    /\ page = [p \in UserPtrs |-> "rw"]

(* ------------------------------------------------------------------------ *)
(* The hooking facility (MinHook), as dllmain.cpp uses it                   *)
(* ------------------------------------------------------------------------ *)

\* Constants::HOOK_OFFSET
HOOK_OFFSET == 11

\* for (int i = 0; i < 30 && !game_module; ++i)
MODULE_LOOKUP_TRIES == 30

\* Number of addresses of the module at which FindPattern may find the pattern.
NumScanAddrs == 1

ScanAddrs == 1..NumScanAddrs

Threads == {"main", "detach"}

NoHook == [init |-> FALSE, target |-> 0, enabled |-> FALSE]

\* An operation of the facility yields a status and the facility's new state.
\* Initialize, CreateHook and EnableHook may fail, changing nothing, although
\* their precondition holds. Disabling an enabled hook patches the target
\* back and may fail as well; that is the only way DisableHook, RemoveHook and
\* Uninitialize fail on an initialized facility.
Outcome(st, m) == [st |-> st, mh |-> m]

\* MH_Initialize()
MH_Initialize(m) ==
    IF m.init THEN {Outcome("ALREADY_INITIALIZED", m)}
    ELSE {Outcome("OK", [m EXCEPT !.init = TRUE]), Outcome("FAILED", m)}

\* MH_CreateHook(g_tpvHookAddress, &TPV_CaptureR9_Detour, &fpTPV_OriginalCode)
MH_CreateHook(m, a) ==
    IF ~m.init THEN {Outcome("NOT_INITIALIZED", m)}
    ELSE IF m.target # 0 THEN {Outcome("ALREADY_CREATED", m)}
    ELSE {Outcome("OK", [m EXCEPT !.target = a]), Outcome("FAILED", m)}

\* MH_EnableHook(g_tpvHookAddress)
MH_EnableHook(m, a) ==
    IF ~m.init THEN {Outcome("NOT_INITIALIZED", m)}
    ELSE IF m.target = 0 \/ m.target # a THEN {Outcome("NOT_CREATED", m)}
    ELSE IF m.enabled THEN {Outcome("ENABLED", m)}
    ELSE {Outcome("OK", [m EXCEPT !.enabled = TRUE]), Outcome("FAILED", m)}

\* MH_DisableHook(g_tpvHookAddress)
MH_DisableHook(m, a) ==
    IF ~m.init THEN {Outcome("NOT_INITIALIZED", m)}
    ELSE IF m.target = 0 \/ m.target # a THEN {Outcome("NOT_CREATED", m)}
    ELSE IF ~m.enabled THEN {Outcome("DISABLED", m)}
    ELSE {Outcome("OK", [m EXCEPT !.enabled = FALSE]), Outcome("FAILED", m)}

\* MH_RemoveHook(g_tpvHookAddress): an enabled hook is disabled first.
MH_RemoveHook(m, a) ==
    IF ~m.init THEN {Outcome("NOT_INITIALIZED", m)}
    ELSE IF m.target = 0 \/ m.target # a THEN {Outcome("NOT_CREATED", m)}
    ELSE {Outcome("OK", [m EXCEPT !.target = 0, !.enabled = FALSE])}
         \cup (IF m.enabled THEN {Outcome("FAILED", m)} ELSE {})

\* MH_Uninitialize(): disables every hook, then drops them all.
MH_Uninitialize(m) ==
    IF ~m.init THEN {Outcome("NOT_INITIALIZED", m)}
    ELSE {Outcome("OK", NoHook)}
         \cup (IF m.enabled THEN {Outcome("FAILED", m)} ELSE {})

NoLog == [disable |-> "none", remove |-> "none", uninit |-> "none"]
NoClean == [redundant |-> FALSE, errors |-> 0, ops |-> 0, frees |-> 0]

\* Everything the hook side never touches.
patchSide == <<mem, page, execVars, ghostVars, loopVars, inputVars>>

(* ------------------------------------------------------------------------ *)
(* CleanupResources (dllmain.cpp), called by thread t                       *)
(* ------------------------------------------------------------------------ *)

\* The call is entered: nothing done yet. It is redundant when nothing was
\* acquired since the last call ended (or ever).
CleanupEnter(t) ==
    /\ cpc' = [cpc EXCEPT ![t] = "c_check"]
    /\ cinfo' = [cinfo EXCEPT ![t] = [NoClean EXCEPT !.redundant = ~dirty]]

\* if (g_tpvHookAddress && fpTPV_OriginalCode)
HookLooksInstalled == g_tpvHookAddress # 0 /\ fpTPV_OriginalCode # "null"

CCheck(t) ==
    /\ cpc[t] = "c_check"
    /\ cpc' = [cpc EXCEPT ![t] = IF HookLooksInstalled THEN "c_disable"
                                 ELSE "c_uninit"]
    /\ UNCHANGED <<storageVars, cell, patchSide, hookVars, mainVars, dpc,
                   hookGhost>>

\* mh_stat == MH_OK || mh_stat == MH_ERROR_DISABLED
DisableAccepted(st) == st \in {"OK", "DISABLED"}

\* MH_DisableHook(g_tpvHookAddress); remove only if the disable was accepted.
CDisable(t) ==
    /\ cpc[t] = "c_disable"
    /\ \E o \in MH_DisableHook(mh, g_tpvHookAddress) :
        /\ mh' = o.mh
        /\ mhlog' = [mhlog EXCEPT !.disable = o.st]
        /\ cpc' = [cpc EXCEPT ![t] = IF DisableAccepted(o.st) THEN "c_remove"
                                     ELSE "c_uninit"]
        /\ cinfo' = [cinfo EXCEPT ![t].ops = @ + 1,
                                  ![t].errors = IF DisableAccepted(o.st)
                                                THEN @ ELSE @ + 1]
    /\ UNCHANGED <<storageVars, cell, patchSide, g_tpvHookAddress,
                   fpTPV_OriginalCode, mainVars, dpc, failed_at, dirty>>

\* MH_RemoveHook(g_tpvHookAddress)
CRemove(t) ==
    /\ cpc[t] = "c_remove"
    /\ \E o \in MH_RemoveHook(mh, g_tpvHookAddress) :
        /\ mh' = o.mh
        /\ mhlog' = [mhlog EXCEPT !.remove = o.st]
        /\ cinfo' = [cinfo EXCEPT ![t].ops = @ + 1,
                                  ![t].errors = IF o.st = "OK" THEN @ ELSE @ + 1]
    /\ cpc' = [cpc EXCEPT ![t] = "c_uninit"]
    /\ UNCHANGED <<storageVars, cell, patchSide, g_tpvHookAddress,
                   fpTPV_OriginalCode, mainVars, dpc, failed_at, dirty>>

\* mh_stat == MH_OK || mh_stat == MH_ERROR_NOT_INITIALIZED
UninitAccepted(st) == st \in {"OK", "NOT_INITIALIZED"}

\* UninitDue testing the wrong pointer: the storage pointer being null.
UninitDueWrongPointer == g_r9_for_tpv_flag = "null"

\* if (g_tpvHookAddress)
UninitDue == g_tpvHookAddress # 0

\* if (g_tpvHookAddress) MH_Uninitialize();
CUninit(t) ==
    /\ cpc[t] = "c_uninit"
    /\ IF UninitDue
       THEN \E o \in MH_Uninitialize(mh) :
            /\ mh' = o.mh
            /\ mhlog' = [mhlog EXCEPT !.uninit = o.st]
            /\ cinfo' = [cinfo EXCEPT ![t].ops = @ + 1,
                                      ![t].errors = IF UninitAccepted(o.st)
                                                    THEN @ ELSE @ + 1]
       ELSE UNCHANGED <<mh, mhlog, cinfo>>
    /\ cpc' = [cpc EXCEPT ![t] = "c_free"]
    /\ UNCHANGED <<storageVars, cell, patchSide, g_tpvHookAddress,
                   fpTPV_OriginalCode, mainVars, dpc, failed_at, dirty>>

\* CFree without the VirtualFree call: the pointer is dropped, the word kept.
CFreeNoRelease(t) ==
    /\ cpc[t] = "c_free"
    /\ cpc' = [cpc EXCEPT ![t] = IF g_r9_for_tpv_flag # "null" THEN "c_null"
                                 ELSE "c_reset"]
    /\ UNCHANGED <<storageVars, cell, patchSide, hookVars, mainVars, dpc,
                   hookGhost>>

\* if (g_r9_for_tpv_flag) VirtualFree(g_r9_for_tpv_flag, 0, MEM_RELEASE);
\* VirtualFree fails on a region that is not allocated (any more).
CFree(t) ==
    /\ cpc[t] = "c_free"
    /\ IF g_r9_for_tpv_flag # "null"
       THEN /\ storage' = "freed"
            /\ cinfo' = [cinfo EXCEPT ![t].frees = @ + 1,
                                      ![t].errors = IF storage = "live"
                                                    THEN @ ELSE @ + 1]
            /\ cpc' = [cpc EXCEPT ![t] = "c_null"]
       ELSE /\ UNCHANGED <<storage, cinfo>>
            /\ cpc' = [cpc EXCEPT ![t] = "c_reset"]
    /\ UNCHANGED <<g_r9_for_tpv_flag, cell, patchSide, hookVars, mainVars, dpc,
                   failed_at, mhlog, dirty>>

\* g_r9_for_tpv_flag = nullptr;
CNull(t) ==
    /\ cpc[t] = "c_null"
    /\ g_r9_for_tpv_flag' = "null"
    /\ cpc' = [cpc EXCEPT ![t] = "c_reset"]
    /\ UNCHANGED <<storage, cell, patchSide, hookVars, mainVars, dpc, hookGhost>>

\* CReset that leaves g_tpvHookAddress as it is.
CResetKeepsAddress(t) ==
    /\ cpc[t] = "c_reset"
    /\ fpTPV_OriginalCode' = "null"
    /\ cpc' = [cpc EXCEPT ![t] = "idle"]
    /\ dirty' = FALSE
    /\ IF t = "main"
       THEN mpc' = "returned" /\ main_ret' = 1 /\ dpc' = dpc
       ELSE dpc' = "returned" /\ mpc' = mpc /\ main_ret' = main_ret
    /\ UNCHANGED <<storageVars, cell, patchSide, g_tpvHookAddress, mh, tries,
                   toggle_started, failed_at, mhlog, cinfo>>

\* g_tpvHookAddress = nullptr; fpTPV_OriginalCode = nullptr; and the return to
\* the caller: MainThread's "return 1" or the end of DllMain.
CReset(t) ==
    /\ cpc[t] = "c_reset"
    /\ g_tpvHookAddress' = 0
    /\ fpTPV_OriginalCode' = "null"
    /\ cpc' = [cpc EXCEPT ![t] = "idle"]
    /\ dirty' = FALSE
    /\ IF t = "main"
       THEN mpc' = "returned" /\ main_ret' = 1 /\ dpc' = dpc
       ELSE dpc' = "returned" /\ mpc' = mpc /\ main_ret' = main_ret
    /\ UNCHANGED <<storageVars, cell, patchSide, mh, tries, toggle_started,
                   failed_at, mhlog, cinfo>>

CleanupResources ==
    \E t \in Threads :
        CCheck(t) \/ CDisable(t) \/ CRemove(t) \/ CUninit(t) \/ CFree(t)
        \/ CNull(t) \/ CReset(t)

(* ------------------------------------------------------------------------ *)
(* DllMain and MainThread (dllmain.cpp)                                     *)
(* ------------------------------------------------------------------------ *)

\* DLL_PROCESS_ATTACH: CreateThread(MainThread); on failure DllMain returns
\* FALSE and MainThread never runs.
DllAttach ==
    /\ mpc = "unloaded"
    /\ \E ok \in BOOLEAN : mpc' = IF ok THEN "alloc" ELSE "no_thread"
    /\ UNCHANGED <<storageVars, cell, patchSide, hookVars, tries, main_ret,
                   toggle_started, cleanVars, hookGhost>>

\* Initialization step s failed: go on at the unwind position next.
Fail(s, next) ==
    /\ failed_at' = s
    /\ mpc' = next

\* MtAlloc on memory that is not zero-filled and without *g_r9_for_tpv_flag = 0:
\* the word starts with whatever it held.
MtAllocNoZero ==
    /\ mpc = "alloc"
    /\ \E ok \in BOOLEAN :
        IF ok
        THEN /\ g_r9_for_tpv_flag' = "storage"
             /\ storage' = "live"
             /\ cell' \in Captured
             /\ dirty' = TRUE
             /\ mpc' = "lookup"
             /\ UNCHANGED <<main_ret, failed_at>>
        ELSE /\ Fail("VirtualAlloc", "returned")
             /\ main_ret' = 1
             /\ UNCHANGED <<storageVars, cell, dirty>>
    /\ UNCHANGED <<patchSide, hookVars, tries, toggle_started, cleanVars,
                   mhlog, cinfo>>

\* Phase 2: VirtualAlloc the cell and zero it; return 1 when it fails.
MtAlloc ==
    /\ mpc = "alloc"
    /\ \E ok \in BOOLEAN :
        IF ok
        THEN /\ g_r9_for_tpv_flag' = "storage"
             /\ storage' = "live"
             /\ cell' = 0
             /\ dirty' = TRUE
             /\ mpc' = "lookup"
             /\ UNCHANGED <<main_ret, failed_at>>
        ELSE /\ Fail("VirtualAlloc", "returned")
             /\ main_ret' = 1
             /\ UNCHANGED <<storageVars, cell, dirty>>
    /\ UNCHANGED <<patchSide, hookVars, tries, toggle_started, cleanVars,
                   mhlog, cinfo>>

\* MtLookup that goes on to GetModuleInformation when every attempt failed.
MtLookupGoesOn ==
    /\ mpc = "lookup"
    /\ IF tries < MODULE_LOOKUP_TRIES
       THEN \E found \in BOOLEAN :
            /\ tries' = IF found THEN tries ELSE tries + 1
            /\ mpc' = IF found THEN "modinfo" ELSE "lookup"
            /\ failed_at' = failed_at
       ELSE mpc' = "modinfo" /\ failed_at' = failed_at /\ tries' = tries
    /\ UNCHANGED <<storageVars, cell, patchSide, hookVars, main_ret,
                   toggle_started, cleanVars, mhlog, cinfo, dirty>>

\* GetModuleHandleA, at most MODULE_LOOKUP_TRIES times, a second apart.
MtLookup ==
    /\ mpc = "lookup"
    /\ IF tries < MODULE_LOOKUP_TRIES
       THEN \E found \in BOOLEAN :
            /\ tries' = IF found THEN tries ELSE tries + 1
            /\ mpc' = IF found THEN "modinfo" ELSE "lookup"
            /\ failed_at' = failed_at
       ELSE Fail("GetModuleHandleA", "call_cleanup") /\ tries' = tries
    /\ UNCHANGED <<storageVars, cell, patchSide, hookVars, main_ret,
                   toggle_started, cleanVars, mhlog, cinfo, dirty>>

\* GetModuleInformation
MtModInfo ==
    /\ mpc = "modinfo"
    /\ \E ok \in BOOLEAN :
        IF ok THEN mpc' = "parse" /\ failed_at' = failed_at
        ELSE Fail("GetModuleInformation", "call_cleanup")
    /\ UNCHANGED <<storageVars, cell, patchSide, hookVars, tries, main_ret,
                   toggle_started, cleanVars, mhlog, cinfo, dirty>>

\* parseAOB(config.aob_pattern); pattern.empty() is fatal.
MtParse ==
    /\ mpc = "parse"
    /\ \E empty \in BOOLEAN :
        IF empty THEN Fail("parseAOB", "call_cleanup")
        ELSE mpc' = "scan" /\ failed_at' = failed_at
    /\ UNCHANGED <<storageVars, cell, patchSide, hookVars, tries, main_ret,
                   toggle_started, cleanVars, mhlog, cinfo, dirty>>

\* HookTarget without the offset: the hook goes to the start of the pattern.
HookTargetAtPatternStart(pattern_start) == pattern_start

\* g_tpvHookAddress = pattern_start + Constants::HOOK_OFFSET
HookTarget(pattern_start) == pattern_start + HOOK_OFFSET

\* FindPattern; a null result is fatal, else the hook address is computed.
MtScan ==
    /\ mpc = "scan"
    /\ \E pattern_start \in {0} \cup ScanAddrs :
        IF pattern_start = 0
        THEN /\ Fail("FindPattern", "call_cleanup")
             /\ g_tpvHookAddress' = g_tpvHookAddress
        ELSE /\ g_tpvHookAddress' = HookTarget(pattern_start)
             /\ mpc' = "mh_init"
             /\ failed_at' = failed_at
    /\ UNCHANGED <<storageVars, cell, patchSide, fpTPV_OriginalCode, mh, tries,
                   main_ret, toggle_started, cleanVars, mhlog, cinfo, dirty>>

\* Phase 4: MH_Initialize
MtInitialize ==
    /\ mpc = "mh_init"
    /\ \E o \in MH_Initialize(mh) :
        /\ mh' = o.mh
        /\ IF o.st = "OK" THEN mpc' = "create" /\ failed_at' = failed_at
           ELSE Fail("MH_Initialize", "call_cleanup")
    /\ UNCHANGED <<storageVars, cell, patchSide, g_tpvHookAddress,
                   fpTPV_OriginalCode, tries, main_ret, toggle_started,
                   cleanVars, mhlog, cinfo, dirty>>

\* MH_CreateHook; MH_OK may still leave the continuation NULL.
MtCreate ==
    /\ mpc = "create"
    /\ \E o \in MH_CreateHook(mh, g_tpvHookAddress), cont \in {"null", "continuation"} :
        /\ mh' = o.mh
        /\ IF o.st # "OK"
           THEN /\ cont = "null"
                /\ Fail("MH_CreateHook", "u_uninit")
           ELSE IF cont = "null"
           THEN Fail("continuation", "u_remove")
           ELSE mpc' = "enable" /\ failed_at' = failed_at
        /\ fpTPV_OriginalCode' = cont
    /\ UNCHANGED <<storageVars, cell, patchSide, g_tpvHookAddress, tries,
                   main_ret, toggle_started, cleanVars, mhlog, cinfo, dirty>>

\* EnableSucceeded that takes every status for success.
EnableSucceededAlways(st) == TRUE

\* if (mh_stat != MH_OK) after MH_EnableHook
EnableSucceeded(st) == st = "OK"

\* MH_EnableHook
MtEnable ==
    /\ mpc = "enable"
    /\ \E o \in MH_EnableHook(mh, g_tpvHookAddress) :
        /\ mh' = o.mh
        /\ IF EnableSucceeded(o.st) THEN mpc' = "thread" /\ failed_at' = failed_at
           ELSE Fail("MH_EnableHook", "u_remove")
    /\ UNCHANGED <<storageVars, cell, patchSide, g_tpvHookAddress,
                   fpTPV_OriginalCode, tries, main_ret, toggle_started,
                   cleanVars, mhlog, cinfo, dirty>>

\* MtThread placed before MH_EnableHook as well.
MtThreadBeforeEnable ==
    /\ mpc \in {"enable", "thread"}
    /\ toggle_started' = TRUE
    /\ lpc' = "start"
    /\ mpc' = "returned"
    /\ main_ret' = 0
    /\ UNCHANGED <<storageVars, cell, mem, page, execVars, ghostVars,
                   inputVars, keyVars, key_was_down, lset, lidx, down, action, cycle, pollGhost,
                   hookVars, tries, cleanVars, hookGhost>>

\* Phase 5: CreateThread(ToggleThread); return 0 on success. The new thread
\* is at the first statement of ToggleThread.
MtThread ==
    /\ mpc = "thread"
    /\ \E ok \in BOOLEAN :
        IF ok
        THEN /\ toggle_started' = TRUE
             /\ lpc' = "start"
             /\ mpc' = "returned"
             /\ main_ret' = 0
             /\ failed_at' = failed_at
        ELSE /\ Fail("CreateThread", "u_disable")
             /\ UNCHANGED <<toggle_started, lpc, main_ret>>
    /\ UNCHANGED <<storageVars, cell, mem, page, execVars, ghostVars,
                   inputVars, keyVars, key_was_down, lset, lidx, down, action, cycle, pollGhost,
                   hookVars, tries, cleanVars, mhlog, cinfo, dirty>>

\* MH_DisableHook(g_tpvHookAddress); of the CreateThread failure path.
MtUnwindDisable ==
    /\ mpc = "u_disable"
    /\ \E o \in MH_DisableHook(mh, g_tpvHookAddress) :
        /\ mh' = o.mh
        /\ mhlog' = [mhlog EXCEPT !.disable = o.st]
    /\ mpc' = "u_remove"
    /\ UNCHANGED <<storageVars, cell, patchSide, g_tpvHookAddress,
                   fpTPV_OriginalCode, tries, main_ret, toggle_started,
                   cleanVars, failed_at, cinfo, dirty>>

\* MH_RemoveHook(g_tpvHookAddress); of the failure paths after MH_CreateHook.
MtUnwindRemove ==
    /\ mpc = "u_remove"
    /\ \E o \in MH_RemoveHook(mh, g_tpvHookAddress) :
        /\ mh' = o.mh
        /\ mhlog' = [mhlog EXCEPT !.remove = o.st]
    /\ mpc' = "u_uninit"
    /\ UNCHANGED <<storageVars, cell, patchSide, g_tpvHookAddress,
                   fpTPV_OriginalCode, tries, main_ret, toggle_started,
                   cleanVars, failed_at, cinfo, dirty>>

\* MH_Uninitialize(); of the failure paths after MH_Initialize.
MtUnwindUninit ==
    /\ mpc = "u_uninit"
    /\ \E o \in MH_Uninitialize(mh) :
        /\ mh' = o.mh
        /\ mhlog' = [mhlog EXCEPT !.uninit = o.st]
    /\ mpc' = "call_cleanup"
    /\ UNCHANGED <<storageVars, cell, patchSide, g_tpvHookAddress,
                   fpTPV_OriginalCode, tries, main_ret, toggle_started,
                   cleanVars, failed_at, cinfo, dirty>>

\* CleanupResources(); return 1;
MtCallCleanup ==
    /\ mpc = "call_cleanup"
    /\ mpc' = "in_cleanup"
    /\ CleanupEnter("main")
    /\ UNCHANGED <<storageVars, cell, patchSide, hookVars, tries, main_ret,
                   toggle_started, dpc, failed_at, mhlog, dirty>>

MainThread ==
    \/ MtAlloc \/ MtLookup \/ MtModInfo \/ MtParse \/ MtScan
    \/ MtInitialize \/ MtCreate \/ MtEnable \/ MtThread
    \/ MtUnwindDisable \/ MtUnwindRemove \/ MtUnwindUninit \/ MtCallCleanup

\* MainThread is not running (any more).
MainThreadOver == mpc \in {"no_thread", "returned"}

\* DLL_PROCESS_DETACH: CleanupResources();
DllDetach ==
    /\ MainThreadOver
    /\ dpc = "none"
    /\ dpc' = "in_cleanup"
    /\ CleanupEnter("detach")
    /\ UNCHANGED <<storageVars, cell, patchSide, hookVars, mainVars,
                   failed_at, mhlog, dirty>>

(* ------------------------------------------------------------------------ *)
(* SpecHook: the module is loaded, MainThread runs to its end, the module   *)
(* is unloaded                                                              *)
(* ------------------------------------------------------------------------ *)

InitHookGhost ==
    /\ failed_at = "none"
    /\ mhlog = NoLog
    /\ cinfo = [t \in Threads |-> NoClean]
    /\ dirty = FALSE

\* The globals and the threads of dllmain.cpp before DllMain is called.
InitHookSide ==
    /\ g_r9_for_tpv_flag = "null"
    /\ storage = "none"
    /\ cell = 0
    /\ g_tpvHookAddress = 0
    /\ fpTPV_OriginalCode = "null"
    /\ mh = NoHook
    /\ mpc = "unloaded"
    /\ tries = 0
    /\ main_ret = -1
    /\ toggle_started = FALSE
    /\ cpc = [t \in Threads |-> "idle"]
    /\ dpc = "none"
    /\ InitHookGhost
    /\ InitTarget
    /\ InitExecutor

InitHook == InitHookSide /\ InitNoLoop /\ InitNoScan

NextHook == DllAttach \/ MainThread \/ CleanupResources \/ DllDetach

SpecHook == InitHook /\ [][NextHook]_vars

\* As SpecHook, and a thread that can take a step takes one: MainThread (with
\* the CleanupResources it calls) and the thread that unloads the module are
\* scheduled by the operating system.
SpecHookFair ==
    /\ SpecHook
    /\ WF_vars(MainThread)
    /\ WF_vars(CleanupResources)

(* ------------------------------------------------------------------------ *)
(* SpecRace: as SpecHook, and the module may be unloaded while MainThread   *)
(* is still running                                                         *)
(* ------------------------------------------------------------------------ *)

\* DLL_PROCESS_DETACH while MainThread runs: nothing makes DllMain wait for
\* MainThread, and nothing tells MainThread to stop.
DllDetachEarly ==
    /\ mpc # "unloaded"
    /\ ~MainThreadOver
    /\ dpc = "none"
    /\ dpc' = "in_cleanup"
    /\ CleanupEnter("detach")
    /\ UNCHANGED <<storageVars, cell, patchSide, hookVars, mainVars,
                   failed_at, mhlog, dirty>>

NextRace == NextHook \/ DllDetachEarly

SpecRace == InitHook /\ [][NextRace]_vars

\* The state MainThread leaves when it returns 0.
InitInstalled ==
    /\ \E a \in ScanAddrs :
        /\ g_tpvHookAddress = HookTarget(a)
        /\ mh = [init |-> TRUE, target |-> HookTarget(a), enabled |-> TRUE]
    /\ fpTPV_OriginalCode = "continuation"
    /\ mpc = "returned"
    /\ tries = 0
    /\ main_ret = 0
    /\ toggle_started = TRUE
    /\ cpc = [t \in Threads |-> "idle"]
    /\ dpc = "none"
    /\ failed_at = "none"
    /\ mhlog = NoLog
    /\ cinfo = [t \in Threads |-> NoClean]
    /\ dirty = TRUE

(* ------------------------------------------------------------------------ *)
(* SpecExec: the patch executor called again and again, the host process    *)
(* running beside it                                                        *)
(* ------------------------------------------------------------------------ *)

\* MainThread has allocated and zeroed the cell and enabled the hook.
InitExec ==
    /\ g_r9_for_tpv_flag = "storage"
    /\ storage = "live"
    /\ cell = 0
    /\ InitInstalled
    /\ InitTarget
    /\ InitExecutor
    /\ InitNoLoop
    /\ InitNoScan

ExecStep ==
    \/ SvPtr \/ SvCell \/ SvQuery \/ SvRead \/ SvWrite \/ Fault
    \/ TgPtr \/ TgCell \/ TgProbe \/ TgRead

NextExec ==
    \/ CallSetViewState \/ CallFirstPerson \/ CallThirdPerson \/ CallToggle
    \/ ExecStep
    \/ Finish
    \/ Detour \/ HostProtect \/ HostWrite

SpecExec == InitExec /\ [][NextExec]_vars

(* ------------------------------------------------------------------------ *)
(* SpecLoop: ToggleThread polls its keys and calls the patch executor, the  *)
(* host process running beside it                                           *)
(* ------------------------------------------------------------------------ *)

\* The key lists of the configuration: keys in at most one of the three lists.
InitKeys ==
    /\ toggle_keys \in KeyLists
    /\ fpv_keys \in KeyLists
    /\ tpv_keys \in KeyLists
    /\ Cardinality({s \in KeySets : KeysOf(s) # <<>>}) <= 1

\* MainThread has returned 0: CreateThread(ToggleThread, thread_data) gave the
\* thread the key lists of the configuration, here with keys in at most one of
\* the three lists.
InitLoop ==
    /\ g_r9_for_tpv_flag = "storage"
    /\ storage = "live"
    /\ cell = 0
    /\ InitInstalled
    /\ InitTarget
    /\ InitExecutor
    /\ InitKeys
    /\ lpc = "start"
    /\ InitPoll
    /\ InitNoScan

\* The host does not write the flag byte here.
NextLoop ==
    \/ ToggleThread
    \/ ExecStep
    \/ Detour \/ HostProtect

SpecLoop == InitLoop /\ [][NextLoop]_vars

(* ------------------------------------------------------------------------ *)
(* SpecShared: ToggleThread with one key bound to Toggle and to             *)
(* ForceFirstPerson, the patch executor, and the detour beside them         *)
(* ------------------------------------------------------------------------ *)

\* MainThread has returned 0; the configuration names VK_F3 as a Toggle key
\* and as a ForceFirstPerson key.
InitShared ==
    /\ g_r9_for_tpv_flag = "storage"
    /\ storage = "live"
    /\ cell = 0
    /\ InitInstalled
    /\ InitTarget
    /\ InitExecutor
    /\ toggle_keys = <<114>>
    /\ fpv_keys = <<114>>
    /\ tpv_keys = <<>>
    /\ lpc = "start"
    /\ InitPoll
    /\ InitNoScan

\* ToggleThread with keys configured: it never idles.
PollSteps == TtStart \/ TtSample \/ TtReturn \/ TtNextList \/ TtSleep

\* The patch executor while the host leaves the pages of the target alone: no
\* load or store of it faults.
ExecNoFault ==
    \/ SvPtr \/ SvCell \/ SvQuery \/ SvRead \/ SvWrite
    \/ TgPtr \/ TgCell \/ TgProbe \/ TgRead

\* The host only runs the detour.
NextShared == PollSteps \/ ExecNoFault \/ Detour

SpecShared == InitShared /\ [][NextShared]_vars

(* ------------------------------------------------------------------------ *)
(* SpecOrder: ToggleThread with one key in each of the three lists, a       *)
(* captured pointer already in the cell, and nobody else writing            *)
(* ------------------------------------------------------------------------ *)

\* ToggleData with three distinct keys (F5, F3, F4), one per list; the detour
\* has run before and stored some value.
InitOrder ==
    /\ g_r9_for_tpv_flag = "storage"
    /\ storage = "live"
    /\ cell \in Captured
    /\ InitInstalled
    /\ InitTarget
    /\ InitExecutor
    /\ toggle_keys = <<116>>
    /\ fpv_keys = <<114>>
    /\ tpv_keys = <<115>>
    /\ lpc = "start"
    /\ InitPoll
    /\ InitNoScan

NextOrder ==
    \/ TtStart \/ TtSample \/ RecordedReturn \/ TtNextList \/ TtSleep
    \/ ExecNoFault

SpecOrder == InitOrder /\ [][NextOrder]_vars

(* ------------------------------------------------------------------------ *)
(* SpecLive: ToggleThread scheduled fairly, with one ForceFirstPerson key   *)
(* and one ForceThirdPerson key, the detour and the host's page changes     *)
(* ------------------------------------------------------------------------ *)

\* Number of poll cycles SpecLive follows.
LiveCycles == 2

\* ToggleData with F3 in fpv_keys and F4 in tpv_keys.
InitLive ==
    /\ g_r9_for_tpv_flag = "storage"
    /\ storage = "live"
    /\ cell = 0
    /\ InitInstalled
    /\ InitTarget
    /\ InitExecutor
    /\ toggle_keys = <<>>
    /\ fpv_keys = <<114>>
    /\ tpv_keys = <<115>>
    /\ lpc = "start"
    /\ InitPoll
    /\ InitNoScan

TtSleepBounded == TtSleep /\ cycle < LiveCycles

\* Every step ToggleThread takes, the called setViewState included.
ToggleThreadSteps ==
    \/ TtStart \/ TtSample \/ TtReturn \/ TtNextList \/ TtSleepBounded
    \/ SvPtr \/ SvCell \/ SvQuery \/ SvRead \/ SvWrite \/ Fault

NextLive == ToggleThreadSteps \/ Detour \/ HostProtect

\* The OS scheduler gives ToggleThread the processor again and again.
SpecLive == InitLive /\ [][NextLive]_vars /\ WF_vars(ToggleThreadSteps)

(* ------------------------------------------------------------------------ *)
(* SpecStart: the module is loaded, MainThread initializes and, when it     *)
(* succeeds, ToggleThread runs up to the Sleep of its first poll cycle      *)
(* ------------------------------------------------------------------------ *)

\* loadConfig has read the key lists; nothing else has happened.
InitStart ==
    /\ InitHookSide
    /\ InitKeys
    /\ lpc = "none"
    /\ InitPoll
    /\ InitNoScan

\* The detour runs only while the hook is enabled.
HookedDetour == mh.enabled /\ Detour

NextStart ==
    \/ DllAttach \/ MainThread \/ CleanupResources
    \/ TtStart \/ TtIdle \/ TtSample \/ TtReturn \/ TtNextList
    \/ ExecStep
    \/ HookedDetour \/ HostProtect

SpecStart == InitStart /\ [][NextStart]_vars

(* ------------------------------------------------------------------------ *)
(* SpecDetach: the module is unloaded (DllMain, DLL_PROCESS_DETACH) while   *)
(* ToggleThread polls one Toggle key                                        *)
(* ------------------------------------------------------------------------ *)

\* MainThread has returned 0 and ToggleThread is about to start.
InitDetach ==
    /\ g_r9_for_tpv_flag = "storage"
    /\ storage = "live"
    /\ cell = 0
    /\ InitInstalled
    /\ InitTarget
    /\ InitExecutor
    /\ toggle_keys = <<114>>
    /\ fpv_keys = <<>>
    /\ tpv_keys = <<>>
    /\ lpc = "start"
    /\ InitPoll
    /\ InitNoScan

NextDetach ==
    \/ TtStart \/ TtSample \/ TtReturn \/ TtNextList
    \/ ExecNoFault
    \/ HookedDetour
    \/ DllDetach \/ CleanupResources

SpecDetach == InitDetach /\ [][NextDetach]_vars

(* ------------------------------------------------------------------------ *)
(* SpecBytes: ToggleThread with one key in each list while the game writes  *)
(* any byte value to the flag                                               *)
(* ------------------------------------------------------------------------ *)

NextBytes ==
    \/ TtStart \/ TtSample \/ TtReturn \/ TtNextList \/ TtSleepBounded
    \/ ExecNoFault
    \/ HostWrite

SpecBytes == InitOrder /\ [][NextBytes]_vars

(* ------------------------------------------------------------------------ *)
(* SpecChannel: as SpecStart with one Toggle key and the stores of the      *)
(* detour recorded                                                          *)
(* ------------------------------------------------------------------------ *)

\* loadConfig has read one Toggle key; no detour has run.
InitChannel ==
    /\ InitHookSide
    /\ toggle_keys = <<114>>
    /\ fpv_keys = <<>>
    /\ tpv_keys = <<>>
    /\ lpc = "none"
    /\ InitPoll
    /\ InitNoScan

\* The detour runs only while the hook is enabled.
HookedRecordedDetour == mh.enabled /\ RecordedDetour

NextChannel ==
    \/ DllAttach \/ MainThread \/ CleanupResources
    \/ TtStart \/ TtSample \/ TtReturn \/ TtNextList
    \/ ExecStep
    \/ HookedRecordedDetour \/ HostProtect

SpecChannel == InitChannel /\ [][NextChannel]_vars

(* ------------------------------------------------------------------------ *)
(* Pattern compiler and memory scanner (aob_scanner.h): parseAOB and        *)
(* FindPattern, as MainThread calls them                                    *)
(* ------------------------------------------------------------------------ *)

\* Largest byte value in the module image.
MaxScanByte == 1

\* Largest length of the module image (mod_info.SizeOfImage).
MaxRegion == 3

\* Largest number of tokens in config.aob_pattern.
MaxTokens == 2

ScanBytes == 0..MaxScanByte

\* The module images: every byte sequence of up to MaxRegion bytes.
Regions == UNION {[1..n -> ScanBytes] : n \in 0..MaxRegion}

\* The characters 0-9, A-F, a-f and their values.
HexDigits ==
    [c \in {"0", "1", "2", "3", "4", "5", "6", "7", "8", "9"} |->
        CASE c = "0" -> 0 [] c = "1" -> 1 [] c = "2" -> 2 [] c = "3" -> 3
          [] c = "4" -> 4 [] c = "5" -> 5 [] c = "6" -> 6 [] c = "7" -> 7
          [] c = "8" -> 8 [] c = "9" -> 9]
    @@ [c \in {"A", "a"} |-> 10] @@ [c \in {"B", "b"} |-> 11]
    @@ [c \in {"C", "c"} |-> 12] @@ [c \in {"D", "d"} |-> 13]
    @@ [c \in {"E", "e"} |-> 14] @@ [c \in {"F", "f"} |-> 15]

IsHexDigit(c) == c \in DOMAIN HexDigits

\* The wildcard marker of the pattern language.
WildcardToken == <<"?", "?">>

\* The tokens an AOB string is drawn from, each a sequence of characters:
\* three byte tokens (one in lower case), the wildcard marker, and three
\* malformed ones (one digit, three digits, a character that is no digit).
Tokens ==
    {<<"0", "0">>, <<"0", "1">>, <<"0", "a">>, WildcardToken,
     <<"1">>, <<"0", "0", "1">>, <<"0", "G">>}

\* The AOB strings, split at white space: up to MaxTokens tokens.
TokenStrings == UNION {[1..n -> Tokens] : n \in 0..MaxTokens}

\* The entry of a compiled pattern that matches any byte.
Wild == -1

\* No entry: the token is malformed.
BadToken == -2

\* One token compiled: a byte value, Wild or BadToken.
ParseToken(t) ==
    IF t = WildcardToken THEN Wild
    ELSE IF Len(t) = 2 /\ IsHexDigit(t[1]) /\ IsHexDigit(t[2])
    THEN 16 * HexDigits[t[1]] + HexDigits[t[2]]
    ELSE BadToken

\* parseAOB from token k on, appended to the entries compiled so far; the
\* result is empty as soon as a token is malformed.
RECURSIVE ParseFrom(_, _, _)
ParseFrom(ts, k, out) ==
    IF k > Len(ts) THEN out
    ELSE IF ParseToken(ts[k]) = BadToken THEN <<>>
    ELSE ParseFrom(ts, k + 1, Append(out, ParseToken(ts[k])))

\* std::vector<BYTE> parseAOB(const std::string &): the compiled pattern, empty
\* on failure.
parseAOB(ts) == ParseFrom(ts, 1, <<>>)

\* mod_info.lpBaseOfDll
ImageBase == 16

\* The byte at offset k of the region; reading outside of it gives no byte.
OutOfRegion == -3

ByteAt(region, k) ==
    IF k \in 0..(Len(region) - 1) THEN region[k + 1] ELSE OutOfRegion

\* The comparison at offset a: entry i and the entries after it match. It
\* stops at the first entry that does not.
RECURSIVE MatchFrom(_, _, _, _)
MatchFrom(region, pattern, a, i) ==
    IF i > Len(pattern) THEN TRUE
    ELSE IF pattern[i] # Wild /\ ByteAt(region, a + i - 1) # pattern[i]
    THEN FALSE
    ELSE MatchFrom(region, pattern, a, i + 1)

\* The offsets that comparison reads.
RECURSIVE ReadsFrom(_, _, _, _)
ReadsFrom(region, pattern, a, i) ==
    IF i > Len(pattern) THEN {}
    ELSE IF pattern[i] = Wild THEN ReadsFrom(region, pattern, a, i + 1)
    ELSE IF ByteAt(region, a + i - 1) # pattern[i] THEN {a + i - 1}
    ELSE {a + i - 1} \cup ReadsFrom(region, pattern, a, i + 1)

\* The scan from offset a on: the first offset up to length - patternLength
\* where the comparison succeeds, or -1.
RECURSIVE ScanFrom(_, _, _)
ScanFrom(region, pattern, a) ==
    IF a > Len(region) - Len(pattern) THEN -1
    ELSE IF MatchFrom(region, pattern, a, 1) THEN a
    ELSE ScanFrom(region, pattern, a + 1)

\* The offsets that scan reads.
RECURSIVE ScanReads(_, _, _)
ScanReads(region, pattern, a) ==
    IF a > Len(region) - Len(pattern) THEN {}
    ELSE IF MatchFrom(region, pattern, a, 1)
    THEN ReadsFrom(region, pattern, a, 1)
    ELSE ReadsFrom(region, pattern, a, 1) \cup ScanReads(region, pattern, a + 1)

\* BYTE *FindPattern(base, size, pattern): the address of the first match, or
\* 0 (nullptr) when there is none or the pattern is longer than the region.
FindPattern(base, region, pattern) ==
    IF Len(pattern) > Len(region) \/ ScanFrom(region, pattern, 0) = -1 THEN 0
    ELSE base + ScanFrom(region, pattern, 0)

\* The offsets FindPattern reads.
FindPatternReads(region, pattern) ==
    IF Len(pattern) > Len(region) THEN {}
    ELSE ScanReads(region, pattern, 0)

(* ------------------------------------------------------------------------ *)
(* SpecScan: MainThread from parseAOB on, for every AOB string and module   *)
(* image, up to MH_Initialize or the return after a failure                 *)
(* ------------------------------------------------------------------------ *)

\* MtParseConfig that goes on to the scan with the result of parseAOB, empty or
\* not.
MtParseConfigNotFatal ==
    /\ mpc = "parse"
    /\ mpc' = "scan"
    /\ failed_at' = failed_at
    /\ UNCHANGED <<storageVars, cell, patchSide, hookVars, tries, main_ret,
                   toggle_started, cleanVars, mhlog, cinfo, dirty>>

\* parseAOB(config.aob_pattern); pattern.empty() is fatal.
MtParseConfig ==
    /\ mpc = "parse"
    /\ IF parseAOB(aob_pattern) = <<>> THEN Fail("parseAOB", "call_cleanup")
       ELSE mpc' = "scan" /\ failed_at' = failed_at
    /\ UNCHANGED <<storageVars, cell, patchSide, hookVars, tries, main_ret,
                   toggle_started, cleanVars, mhlog, cinfo, dirty>>

\* MtScanImage that goes on with the result of FindPattern, whatever it is.
MtScanImageNotFatal ==
    /\ mpc = "scan"
    /\ LET pattern_start ==
               FindPattern(ImageBase, image, parseAOB(aob_pattern)) IN
           /\ g_tpvHookAddress' = HookTarget(pattern_start)
           /\ mpc' = "mh_init"
           /\ failed_at' = failed_at
    /\ UNCHANGED <<storageVars, cell, patchSide, fpTPV_OriginalCode, mh, tries,
                   main_ret, toggle_started, cleanVars, mhlog, cinfo, dirty>>

\* FindPattern(base, mod_info.SizeOfImage, pattern); a null result is fatal,
\* else g_tpvHookAddress = pattern_start + Constants::HOOK_OFFSET.
MtScanImage ==
    /\ mpc = "scan"
    /\ LET pattern_start ==
               FindPattern(ImageBase, image, parseAOB(aob_pattern)) IN
           IF pattern_start = 0
           THEN /\ Fail("FindPattern", "call_cleanup")
                /\ g_tpvHookAddress' = g_tpvHookAddress
           ELSE /\ g_tpvHookAddress' = HookTarget(pattern_start)
                /\ mpc' = "mh_init"
                /\ failed_at' = failed_at
    /\ UNCHANGED <<storageVars, cell, patchSide, fpTPV_OriginalCode, mh, tries,
                   main_ret, toggle_started, cleanVars, mhlog, cinfo, dirty>>

\* CleanupResources called before MH_Initialize: no hook address is set, so
\* the steps that disable and remove the hook are skipped.
CleanupBeforeHook ==
    \/ CCheck("main") \/ CUninit("main") \/ CFree("main") \/ CNull("main")
    \/ CReset("main")

\* GetModuleInformation has succeeded (the module was found at once); the AOB
\* string and the module image are arbitrary.
InitScan ==
    /\ g_r9_for_tpv_flag = "storage"
    /\ storage = "live"
    /\ cell = 0
    /\ g_tpvHookAddress = 0
    /\ fpTPV_OriginalCode = "null"
    /\ mh = NoHook
    /\ mpc = "parse"
    /\ tries = 0
    /\ main_ret = -1
    /\ toggle_started = FALSE
    /\ cpc = [t \in Threads |-> "idle"]
    /\ dpc = "none"
    /\ failed_at = "none"
    /\ mhlog = NoLog
    /\ cinfo = [t \in Threads |-> NoClean]
    /\ dirty = TRUE
    /\ InitTarget
    /\ InitExecutor
    /\ InitNoLoop
    /\ aob_pattern \in TokenStrings
    /\ image \in Regions

NextScan == MtParseConfig \/ MtScanImage \/ MtCallCleanup \/ CleanupBeforeHook

SpecScan == InitScan /\ [][NextScan]_vars

(* ------------------------------------------------------------------------ *)
(* Claims about the patch executor                                          *)
(* ------------------------------------------------------------------------ *)

\* C1: in every invocation of setViewState, whatever earlier invocations did,
\* when VirtualQuery fails or reports the page as not committed or not
\* writable, the call returns false at once and has attempted no write.
C1_QueryRejects ==
    acc.query \in {"fail", "ro", "free"} =>
        /\ pc = "done"
        /\ ret = FALSE
        /\ acc.writes = <<>>

\* C1 witness: the call directly after an undisturbed successful
\* setViewState(v) is rejected because the page was re-protected meanwhile.
C1_Witness ==
    /\ pc = "done"
    /\ second
    /\ acc.query = "ro"

\* C2: every store of the flag byte by the executor is executed on a page
\* that is committed and writable at the moment of the store, the host being
\* free to unmap or re-protect the page between the query and the store.
C2_WritesOnWritablePage ==
    \A i \in 1..Len(acc.writes) : acc.writes[i].pg = "rw"

\* The first value the running call read from the captured-pointer cell.
FirstCellRead == IF fn = "safeToggleViewState" THEN tg_r9 ELSE r9_value

\* C3: a call (setViewState, safeToggleViewState, setFirstPersonView,
\* setThirdPersonView) that reads 0 from the captured-pointer cell returns
\* false without querying, reading or writing target-process memory.
C3_UnsetChannelFails ==
    (pc # "idle" /\ FirstCellRead = 0) =>
        /\ pc = "done"
        /\ ret = FALSE
        /\ ~acc.touched
        /\ acc.query = "none"
        /\ acc.writes = <<>>

\* C3 witness: safeToggleViewState has returned after reading 0.
C3_Witness ==
    /\ pc = "done"
    /\ fn = "safeToggleViewState"
    /\ tg_r9 = 0

\* C4: setViewState(v) called directly after an undisturbed setViewState(v),
\* with a captured pointer, a committed writable page and nobody else acting
\* since the first call began, performs no store and returns true; the two
\* calls perform at most one store in total.
C4_SecondCallNoWrite ==
    (second /\ noise = "none") =>
        /\ pc \notin {"sv_write", "fault", "crashed"}
        /\ streak.v = new_state
        /\ streak.w + Len(acc.writes) <= 1
        /\ pc = "done" => (ret = TRUE /\ acc.writes = <<>>)

\* C4 witness: the second call has returned, the first one stored a value
\* other than 0 and 1.
C4_Witness ==
    /\ pc = "done"
    /\ second
    /\ noise = "none"
    /\ streak.w = 1
    /\ new_state > 1

\* The flag byte holds v at the address the call computed from the cell.
FlagIs(v) ==
    /\ cell = r9_value
    /\ r9_value \in UserPtrs
    /\ mem[FlagAddr(r9_value)] = v

C5_Result ==
    (pc = "done" /\ ret = TRUE /\ noise # "data") =>
        /\ fn = "setFirstPersonView" => FlagIs(0)
        /\ fn = "setThirdPersonView" => FlagIs(1)

C5_Frame ==
    pc' # pc =>
        \A a \in MemAddrs :
            mem'[a] # mem[a] => (r9_value \in UserPtrs /\ a = FlagAddr(r9_value))

\* C5: when setFirstPersonView returns true the flag byte at
\* capturedValue + 0x38 is 0, and when setThirdPersonView returns true it is
\* 1, provided nobody else wrote the byte or the cell during the call; no
\* step of the executor changes a byte at any other address.
C5_ForcedViews == []C5_Result /\ [][C5_Frame]_vars

\* C5 witness: setThirdPersonView has returned true after storing the byte.
C5_Witness ==
    /\ pc = "done"
    /\ ret = TRUE
    /\ fn = "setThirdPersonView"
    /\ noise # "data"
    /\ Len(acc.writes) = 1

(* ------------------------------------------------------------------------ *)
(* Claims about hook installation and unwind                                *)
(* ------------------------------------------------------------------------ *)

MainFailed == mpc = "returned" /\ main_ret = 1
DetachOver == dpc = "returned"
NoHookLeft == mh.target = 0 /\ ~mh.enabled
PointersNull ==
    /\ g_r9_for_tpv_flag = "null"
    /\ g_tpvHookAddress = 0
    /\ fpTPV_OriginalCode = "null"

\* The last MH_Uninitialize call of an unwind failed.
UninitFailed == mhlog.uninit = "FAILED"

C9_RedundantCleanupIsNoop ==
    \A t \in Threads :
        cinfo[t].redundant =>
            /\ cinfo[t].errors = 0
            /\ cinfo[t].ops = 0
            /\ cinfo[t].frees = 0
            /\ PointersNull

\* C9 witness: the detach handler's call has returned, directly after the
\* call MainThread made on its failure path, which had released the storage
\* and called the facility.
C9_Witness ==
    /\ DetachOver
    /\ cinfo["detach"].redundant
    /\ cinfo["main"].frees = 1
    /\ cinfo["main"].ops > 0

FullyInstalled ==
    /\ g_tpvHookAddress # 0
    /\ fpTPV_OriginalCode # "null"
    /\ mh = [init |-> TRUE, target |-> g_tpvHookAddress, enabled |-> TRUE]

FullyAbsent ==
    /\ g_tpvHookAddress = 0
    /\ fpTPV_OriginalCode = "null"
    /\ mh = NoHook

\* MainThread has returned and no CleanupResources call is under way.
AtRest == mpc = "returned" /\ \A t \in Threads : cpc[t] = "idle"

SingleToggleKey ==
    /\ Len(toggle_keys) = 1
    /\ fpv_keys = <<>>
    /\ tpv_keys = <<>>

\* The cycles in which the key was sampled down while its previous sample
\* (initially up) was up.
RisingEdges(s) == {i \in 1..Len(s) : s[i] /\ (i = 1 \/ ~s[i - 1])}

\* C6: for a single key bound only to Toggle and any sequence of sampled key
\* states, toggle actions are invoked in exactly the cycles in which the key
\* is sampled down while its previous sample (initially up) was up, once per
\* such cycle; the sequence up, down, down, up, down fires exactly two
\* actions, in cycles 2 and 5.
C6_EdgeTriggered ==
    SingleToggleKey =>
        /\ {fired[i] : i \in 1..Len(fired)} = RisingEdges(samples)
        /\ Len(fired) = Cardinality(RisingEdges(samples))
        /\ samples = <<FALSE, TRUE, TRUE, FALSE, TRUE>> => fired = <<2, 5>>

\* C6 witness: the key was sampled up, down, down, up, down over five cycles
\* and the second action has returned.
C6_Witness ==
    /\ SingleToggleKey
    /\ samples = <<FALSE, TRUE, TRUE, FALSE, TRUE>>
    /\ fired = <<2, 5>>
    /\ cycle = 5
    /\ lpc = "sleep"

(* ------------------------------------------------------------------------ *)
(* Claims about unloading during initialization                             *)
(* ------------------------------------------------------------------------ *)

\* MainThread has returned (or was never created) and the detach handler has
\* returned.
BothFinished == MainThreadOver /\ DetachOver

\* C11: when the process-detach handler runs CleanupResources at any point
\* interleaved with MainThread, then once both have finished no hook is
\* enabled or created, the facility is uninitialized and the captured-pointer
\* storage is released.
C11_DetachDuringInitUnwinds ==
    BothFinished => (mh = NoHook /\ storage # "live")

(* ------------------------------------------------------------------------ *)
(* Claims about the start of the polling loop                               *)
(* ------------------------------------------------------------------------ *)

\* The hook is created at g_tpvHookAddress and enabled, and the continuation
\* is set.
HookInstalled ==
    /\ g_tpvHookAddress # 0
    /\ fpTPV_OriginalCode = "continuation"
    /\ mh = [init |-> TRUE, target |-> g_tpvHookAddress, enabled |-> TRUE]

\* ToggleThread does not exist and no patch action is or was invoked.
NoLoopNoAction ==
    /\ lpc = "none"
    /\ pc = "idle"
    /\ fn = "none"
    /\ samples = <<>>
    /\ fired = <<>>

\* CreateThread(ToggleThread) succeeds in this step.
LoopStarts == ~toggle_started /\ toggle_started'

\* C12: ToggleThread is started only when the hook has been created and
\* enabled successfully; as long as it is not started no patch action is
\* invoked, and in every execution where an initialization step fails it is
\* never started.
C12_LoopOnlyAfterHook ==
    /\ [][LoopStarts => (HookInstalled /\ failed_at = "none")]_vars
    /\ [](~toggle_started => NoLoopNoAction)
    /\ [](failed_at # "none" => ~toggle_started)

\* C12 witness: initialization succeeded and ToggleThread has invoked a patch
\* action with the hook enabled.
C12_Witness ==
    /\ toggle_started
    /\ HookInstalled
    /\ lpc = "in_action"
    /\ pc = "done"

(* ------------------------------------------------------------------------ *)
(* Claims about faults and the life of the polling loop                     *)
(* ------------------------------------------------------------------------ *)

\* ToggleThread is inside its polling loop.
InPollingLoop == lpc \in {"poll", "in_action", "sleep"}

\* C13: once ToggleThread has entered its polling loop it never ends: whatever
\* happens inside the action of a poll cycle, the thread is still alive and
\* the loop can go on to the next key and the next cycle.
C13_LoopNeverEnds == InPollingLoop => pc # "crashed"

\* The load or the store of the flag byte inside setViewState has raised an
\* access violation (setViewState has read the cell into r9_value).
FaultInSetViewState == pc = "fault" /\ r9_value # -1

\* C14: a fault raised by the read or the write of the flag byte inside
\* setViewState makes setViewState return false; it never leaves setViewState
\* in another way.
C14_FaultReturnsFalse ==
    [][FaultInSetViewState =>
        \/ pc' = "fault"
        \/ pc' = "done" /\ ret' = FALSE]_vars

\* The Toggle, ForceFirstPerson and ForceThirdPerson key sets are all empty.
AllKeySetsEmpty == \A k \in KeySets : Len(KeysOf(k)) = 0

\* C15: when the three key sets are all empty, ToggleThread only idles: it
\* never enters a poll cycle, never samples a key, never reads the
\* captured-pointer cell and never invokes a patch action.
C15_NoKeysIdle ==
    AllKeySetsEmpty =>
        /\ lpc \in {"start", "noop_idle"}
        /\ cycle = 0
        /\ samples = <<>>
        /\ fired = <<>>
        /\ down = FALSE
        /\ pc = "idle"
        /\ fn = "none"
        /\ r9_value = -1
        /\ tg_r9 = -1

\* C15 witness: the thread idles with no key configured while the detour has
\* captured a pointer.
C15_Witness ==
    /\ AllKeySetsEmpty
    /\ lpc = "noop_idle"
    /\ cell # 0

(* ------------------------------------------------------------------------ *)
(* Claims about the toggle action                                           *)
(* ------------------------------------------------------------------------ *)

\* safeToggleViewState has returned true, with a captured pointer, and no
\* other party changed the cell or a byte while it ran.
ToggleSucceeded ==
    /\ pc = "done"
    /\ CleanToggle
    /\ flags.before # -1

\* C16: a successful safeToggleViewState with no concurrent writer leaves the
\* flag byte at 1 when it was 0 and at 0 when it was any other value; a
\* second successful toggle right after a first one that began with the flag
\* in {0, 1} leaves the flag at the value it had before the first.
C16_ToggleFlips ==
    ToggleSucceeded =>
        /\ flags.before = 0 => FlagNow = 1
        /\ flags.before > 0 => FlagNow = 0
        /\ flags.origin \in {0, 1} => FlagNow = flags.origin

\* C16 witness: two successful toggles in a row, the first begun with the
\* flag at 1, and the flag is 1 again.
C16_Witness ==
    /\ ToggleSucceeded
    /\ flags.origin = 1
    /\ flags.before = 0
    /\ FlagNow = 1
    /\ Len(acc.writes) = 1

(* ------------------------------------------------------------------------ *)
(* Claims about the captured-pointer channel                                *)
(* ------------------------------------------------------------------------ *)

\* The values a read of the cell may give: the initial 0 or a value some
\* earlier detour invocation stored.
WholeValues == {0} \cup stored

MatchesAt(a) ==
    LET pattern == parseAOB(aob_pattern) IN
    \A i \in 1..Len(pattern) :
        pattern[i] = Wild \/ image[a + i] = pattern[i]

\* The offsets a, with the whole pattern inside the image, where it matches.
MatchOffsets ==
    {a \in 0..(Len(image) - Len(parseAOB(aob_pattern))) : MatchesAt(a)}

\* The lowest of them.
LowestMatch == CHOOSE a \in MatchOffsets : \A b \in MatchOffsets : a <= b

\* MainThread is past the FindPattern call.
ScanDone == mpc = "mh_init" \/ failed_at = "FindPattern"

\* C18: for every image and compiled pattern, FindPattern returns the lowest
\* address in [base, base + length - patternLength] where every entry that is
\* not the wildcard equals the image byte at the same index, and null when
\* there is none or the pattern is longer than the image; it reads no byte at
\* or beyond base + length; MainThread goes on to MH_Initialize with that
\* address plus HOOK_OFFSET, and after a null result it installs nothing,
\* calls CleanupResources and returns 1.
C18_ScanFindsLowestMatch ==
    LET pattern == parseAOB(aob_pattern)
        found == FindPattern(ImageBase, image, pattern) IN
    pattern # <<>> =>
        /\ MatchOffsets # {} => found = ImageBase + LowestMatch
        /\ MatchOffsets = {} => found = 0
        /\ Len(pattern) > Len(image) => found = 0
        /\ FindPatternReads(image, pattern) \subseteq 0..(Len(image) - 1)
        /\ mpc = "mh_init" =>
              /\ MatchOffsets # {}
              /\ g_tpvHookAddress = ImageBase + LowestMatch + HOOK_OFFSET
        /\ failed_at = "FindPattern" =>
              /\ MatchOffsets = {}
              /\ mpc \in {"call_cleanup", "in_cleanup", "returned"}
              /\ mh = NoHook
              /\ mpc = "returned" => main_ret = 1 /\ storage = "freed"

\* A pattern with a wildcard matches the image at two offsets, and MainThread
\* goes on with the lower one.
C18_Witness ==
    /\ mpc = "mh_init"
    /\ Wild \in {parseAOB(aob_pattern)[i] : i \in 1..Len(aob_pattern)}
    /\ Cardinality(MatchOffsets) >= 2
    /\ g_tpvHookAddress = ImageBase + LowestMatch + HOOK_OFFSET

\* The token is two hexadecimal digits.
IsByteToken(t) == Len(t) = 2 /\ \A k \in 1..2 : IsHexDigit(t[k])

\* The token has a character that is neither a hexadecimal digit nor "?".
HasForeignChar(t) == \E k \in 1..Len(t) : ~IsHexDigit(t[k]) /\ t[k] # "?"

\* Every token of the AOB string is two hexadecimal digits or the wildcard
\* marker.
WellFormed ==
    \A i \in 1..Len(aob_pattern) :
        aob_pattern[i] = WildcardToken \/ IsByteToken(aob_pattern[i])

\* The entry token t stands for.
EntryOf(t) ==
    IF t = WildcardToken THEN Wild
    ELSE 16 * HexDigits[t[1]] + HexDigits[t[2]]

\* MainThread is past the parseAOB call.
ParseDone == mpc # "parse"

\* C19: for every well-formed AOB string of n tokens parseAOB yields n
\* entries, entry i standing for token i; an empty string and a string with a
\* token that has a character which is neither a hexadecimal digit nor the
\* wildcard's yield the empty pattern; after an empty pattern MainThread
\* scans and installs nothing, calls CleanupResources and returns 1.
C19_CompilesTokensInOrder ==
    LET pattern == parseAOB(aob_pattern)
        n == Len(aob_pattern) IN
    /\ WellFormed =>
          /\ Len(pattern) = n
          /\ \A i \in 1..n : pattern[i] = EntryOf(aob_pattern[i])
    /\ n = 0 => pattern = <<>>
    /\ (\E i \in 1..n : HasForeignChar(aob_pattern[i])) => pattern = <<>>
    /\ pattern = <<>> /\ ParseDone =>
          /\ failed_at = "parseAOB"
          /\ mpc \in {"call_cleanup", "in_cleanup", "returned"}
          /\ g_tpvHookAddress = 0
          /\ mh = NoHook
          /\ mpc = "returned" =>
                main_ret = 1 /\ storage = "freed" /\ g_r9_for_tpv_flag = "null"

\* The wildcard marker and a byte in lower case were compiled, in that order,
\* and MainThread is at the scan.
C19_Witness ==
    /\ mpc = "scan"
    /\ aob_pattern = <<WildcardToken, <<"0", "a">> >>
    /\ parseAOB(aob_pattern) = <<Wild, 10>>

(* ------------------------------------------------------------------------ *)
(* Claims about the module lookup                                           *)
(* ------------------------------------------------------------------------ *)

\* MainThread exists and has not returned.
MainThreadRuns == mpc \notin {"unloaded", "no_thread", "returned"}

\* Every attempt of the lookup has failed.
LookupExhausted == tries = 30

\* At most 30 attempts are made, a successful one being the last; after 30
\* failed attempts MainThread only calls CleanupResources and returns 1, the
\* storage released, with no hook address and nothing installed.
LookupBounded ==
    /\ tries \in 0..30
    /\ mpc \in {"unloaded", "no_thread", "alloc"} => tries = 0
    /\ LookupExhausted =>
          /\ mpc \in {"lookup", "call_cleanup", "in_cleanup", "returned"}
          /\ mpc # "lookup" => failed_at = "GetModuleHandleA"
          /\ g_tpvHookAddress = 0
          /\ fpTPV_OriginalCode = "null"
          /\ mh = NoHook
          /\ ~toggle_started
          /\ mpc = "returned" =>
                main_ret = 1 /\ storage = "freed" /\ g_r9_for_tpv_flag = "null"

\* C20: the module lookup is attempted at most 30 times and no more after the
\* first success; when all attempts fail MainThread releases the storage and
\* returns 1 without parsing, scanning or installing anything; and MainThread,
\* once running, returns.
C20_LookupBoundedAndTerminates ==
    /\ []LookupBounded
    /\ [][mpc # "lookup" => tries' = tries]_vars
    /\ (MainThreadRuns ~> mpc = "returned")

\* All 30 attempts failed and MainThread has returned 1 with the storage
\* released.
C20_Witness ==
    /\ LookupExhausted
    /\ failed_at = "GetModuleHandleA"
    /\ mpc = "returned"
    /\ main_ret = 1
    /\ storage = "freed"

(* ------------------------------------------------------------------------ *)
(* Claims about the order of the unwind                                     *)
(* ------------------------------------------------------------------------ *)

\* An initialization step has failed and the module is not being unloaded:
\* the calls of the facility since then are those of the failure unwind.
InFailureUnwind == failed_at # "none" /\ dpc = "none"

\* The statuses the facility returns for a call made in the wrong state:
\* disable without an enabled hook, remove without a created hook,
\* uninitialize without an initialized facility.
NotDue ==
    [disable |-> {"NOT_INITIALIZED", "NOT_CREATED", "DISABLED"},
     remove |-> {"NOT_INITIALIZED", "NOT_CREATED"},
     uninit |-> {"NOT_INITIALIZED"}]

\* C21: on a failure unwind disable is invoked only while the hook is
\* enabled, remove only while it is created and uninitialize only while the
\* facility is initialized (so none of them twice for one acquisition), and
\* the storage is released after them.
C21_UnwindCallsOnlyWhenDue ==
    InFailureUnwind =>
        /\ mhlog.disable \notin NotDue.disable
        /\ mhlog.remove \notin NotDue.remove
        /\ mhlog.uninit \notin NotDue.uninit
        /\ storage = "freed" => \A t \in Threads : cpc[t] \notin
                                   {"c_check", "c_disable", "c_remove", "c_uninit"}

(* ------------------------------------------------------------------------ *)
(* Claims about keys bound to more than one action                          *)
(* ------------------------------------------------------------------------ *)

\* The Toggle loop of the running cycle saw a press of the shared key: it
\* sampled the key down, the state last seen being up, and invoked
\* safeToggleViewState.
TogglePressSeen ==
    /\ fired # <<>>
    /\ fired[Len(fired)] = cycle
    /\ Len(samples) = cycle
    /\ samples[cycle]

\* The step in which the ForceFirstPerson loop samples the key and finds it
\* (still) down.
FpvSamplesDown ==
    /\ lpc = "poll"
    /\ lset = "fpv"
    /\ lidx = 1
    /\ lpc' = "in_action" \/ lidx' = 2
    /\ down'

\* C22 as stated: with one key in the Toggle and the ForceFirstPerson set, a
\* press that fired the toggle action fires the force-first-person action in
\* the same cycle.
C22_SharedKeyFiresBoth ==
    [][TogglePressSeen /\ FpvSamplesDown =>
           lpc' = "in_action" /\ fn' = "setFirstPersonView"]_vars

\* C22 amended: with one key in the Toggle and the ForceFirstPerson set, a
\* press that fired the toggle action does not fire the force-first-person
\* action in the same cycle: the Toggle loop has stored the key as down in the
\* map both loops share.
C22_SharedKeyFiresToggleOnly ==
    [][TogglePressSeen /\ FpvSamplesDown =>
           lpc' = "poll" /\ pc' = "idle" /\ key_was_down'[114]]_vars

\* The toggle action fired in this cycle, the ForceFirstPerson loop has
\* sampled the key down and gone past it, and no action is running.
C22_Witness ==
    /\ TogglePressSeen
    /\ lset = "fpv"
    /\ lidx = 2
    /\ lpc = "poll"
    /\ down
    /\ pc = "idle"

(* ------------------------------------------------------------------------ *)
(* Claims about the last-seen state of a key                                *)
(* ------------------------------------------------------------------------ *)

\* A key of the running for loop has just been processed.
KeyProcessed == lpc = "poll" /\ lidx > 1

\* The key processed last.
LastKey == KeysOf(lset)[lidx - 1]

\* The cycles in which the single Toggle key was sampled down, its sample of
\* the cycle before being down as well.
HeldDown == {i \in 2..Len(samples) : samples[i - 1] /\ samples[i]}

\* C23: after a key is processed the state stored for it is the state just
\* sampled, whether no action fired, or one fired and returned true or false;
\* so for a single Toggle key no action is invoked in a cycle in which the key
\* is sampled down after being sampled down in the cycle before, whatever the
\* earlier action returned.
C23_LastSeenIsSample ==
    /\ KeyProcessed => key_was_down[LastKey] = down
    /\ SingleToggleKey => \A i \in HeldDown : \A j \in 1..Len(fired) : fired[j] # i

\* The toggle fired in cycle 1 and failed (no flag byte was ever written); in
\* cycle 2 the key is still down and has been processed without an action.
C23_Witness ==
    /\ SingleToggleKey
    /\ samples = <<TRUE, TRUE>>
    /\ fired = <<1>>
    /\ cycle = 2
    /\ KeyProcessed
    /\ key_was_down[LastKey]
    /\ pc = "idle"
    /\ \A p \in UserPtrs : mem[FlagAddr(p)] = 0

(* ------------------------------------------------------------------------ *)
(* Claims about the order of the installation                               *)
(* ------------------------------------------------------------------------ *)

\* The address is that of a scan result plus 11.
IsHookTarget(a) == a - 11 \in ScanAddrs

\* The facility as MainThread's calls have left it so far.
Facility(init, target, enabled) ==
    [init |-> init, target |-> target, enabled |-> enabled]

\* C24: MainThread calls initialize only after a successful scan, createHook
\* only after initialize returned success, at scanAddress + 11, enable only
\* after createHook returned success with a non-null continuation, and the
\* thread is created only after enable returned success; the hook the
\* facility holds is at the address in g_tpvHookAddress, which is the address
\* every enable, disable and remove call is given.
C24_InstallInOrder ==
    /\ g_tpvHookAddress # 0 => IsHookTarget(g_tpvHookAddress)
    /\ mpc = "mh_init" => IsHookTarget(g_tpvHookAddress) /\ mh = NoHook
    /\ mpc = "create" => mh = Facility(TRUE, 0, FALSE)
    /\ mpc = "enable" =>
          /\ mh = Facility(TRUE, g_tpvHookAddress, FALSE)
          /\ fpTPV_OriginalCode = "continuation"
    /\ mpc = "thread" =>
          /\ mh = Facility(TRUE, g_tpvHookAddress, TRUE)
          /\ fpTPV_OriginalCode = "continuation"
    /\ mpc \in {"unloaded", "no_thread", "alloc", "lookup", "modinfo", "parse",
                "scan"} => mh = NoHook /\ g_tpvHookAddress = 0
    /\ mh.target # 0 =>
          /\ mh.init
          /\ IsHookTarget(mh.target)
          /\ g_tpvHookAddress # 0 => mh.target = g_tpvHookAddress
    /\ mh.enabled => mh.target # 0
    /\ mhlog.disable = "NOT_CREATED" \/ mhlog.remove = "NOT_CREATED" =>
          mh.target = 0

\* The hook is enabled at scanAddress + 11 and MainThread is about to create
\* ToggleThread.
C24_Witness ==
    /\ mpc = "thread"
    /\ mh = Facility(TRUE, 12, TRUE)
    /\ g_tpvHookAddress = 12
    /\ fpTPV_OriginalCode = "continuation"

(* ------------------------------------------------------------------------ *)
(* Claims about what the toggle thread writes                               *)
(* ------------------------------------------------------------------------ *)

\* The step is one of safeToggleViewState's own, before it delegates.
InToggleBody == pc \in {"tg_ptr", "tg_cell", "tg_probe", "tg_read"}

\* The step changes one byte only: the flag byte of the structure whose
\* address setViewState read from the cell, to new_state.
StoresFlagByteOnly ==
    /\ pc = "sv_write"
    /\ r9_value \in Captured \ {0}
    /\ \A a \in MemAddrs :
          mem'[a] = IF a = r9_value + 56 THEN new_state ELSE mem[a]

\* The step belongs to neither the executor nor the polling loop.
NotOfToggleThread == UNCHANGED <<execVars, loopVars, acc>>

C25_Frame ==
    /\ mem' # mem => StoresFlagByteOnly
    /\ InToggleBody => mem' = mem
    /\ cell' # cell => NotOfToggleThread
    /\ page' # page => NotOfToggleThread

\* C25: over any run of the polling loop with Toggle, ForceFirstPerson and
\* ForceThirdPerson actions, a byte of the target changes only in
\* setViewState's store, and then only the byte at capturedValue + 0x38;
\* safeToggleViewState's own steps change no byte, and no step of the
\* executor or of the loop changes the captured-pointer cell.
C25_OnlyFlagByteWritten == [][C25_Frame]_vars

\* A toggle fired by the loop has returned true after its one store, with a
\* later cycle reached.
C25_Witness ==
    /\ lpc = "in_action"
    /\ pc = "done"
    /\ ret = TRUE
    /\ fn = "safeToggleViewState"
    /\ Len(acc.writes) = 1
    /\ mem[acc.writes[1].a] = acc.writes[1].v
    /\ acc.writes[1].a = cell + 56
    /\ cycle = 2

(* ------------------------------------------------------------------------ *)
(* Claims about the order of the three for loops                            *)
(* ------------------------------------------------------------------------ *)

\* Position of a for loop in the body of the polling loop.
Rank(s) == CASE s = "toggle" -> 1 [] s = "fpv" -> 2 [] s = "tpv" -> 3

\* hits describes the current cycle once an action has returned in it.
HitsOfCycle == IF action THEN hits ELSE <<>>

Succeeded(s) ==
    \E i \in 1..Len(HitsOfCycle) : HitsOfCycle[i].s = s /\ HitsOfCycle[i].ok

EndOfCycle == lpc = "sleep"

\* C26: in a poll cycle the Toggle keys are processed before the
\* ForceFirstPerson keys and those before the ForceThirdPerson keys: the
\* actions of a cycle return in that order, and a key is sampled only in its
\* own loop. When a ForceFirstPerson key and a different ForceThirdPerson key
\* both fired in the cycle and both actions returned true, with nobody else
\* writing, the flag byte is 1 when the cycle's Sleep is reached.
C26_ThirdPersonWinsCycle ==
    /\ \A i, j \in 1..Len(HitsOfCycle) :
          i < j => Rank(HitsOfCycle[i].s) < Rank(HitsOfCycle[j].s)
    /\ lpc = "in_action" =>
          \A i \in 1..Len(HitsOfCycle) : Rank(HitsOfCycle[i].s) < Rank(lset)
    /\ EndOfCycle => lset = "tpv"
    /\ (EndOfCycle /\ Succeeded("fpv") /\ Succeeded("tpv")) =>
          cell \in UserPtrs /\ mem[FlagAddr(cell)] = 1

\* All three keys had a rising edge in the second cycle, the three actions
\* returned true in program order, and the flag byte is 1 at the Sleep.
C26_Witness ==
    /\ EndOfCycle
    /\ cycle = 2
    /\ action
    /\ hits = <<[s |-> "toggle", ok |-> TRUE], [s |-> "fpv", ok |-> TRUE],
               [s |-> "tpv", ok |-> TRUE]>>
    /\ mem[FlagAddr(cell)] = 1

(* ------------------------------------------------------------------------ *)
(* Claims about progress of a forced view                                   *)
(* ------------------------------------------------------------------------ *)

\* The loop has seen a rising edge of the ForceThirdPerson (ForceFirstPerson)
\* key and has just called the action.
TpvFired == lpc = "in_action" /\ fn = "setThirdPersonView" /\ pc = "sv_ptr"
FpvFired == lpc = "in_action" /\ fn = "setFirstPersonView" /\ pc = "sv_ptr"

\* The premise fails in this state: no captured pointer to a user structure,
\* or a flag page that is not committed and writable.
PremiseBroken ==
    \/ cell \notin UserPtrs
    \/ \E p \in UserPtrs : VirtualQuery(FlagAddr(p)) # "rw"

\* The action has returned true and the flag byte of the structure it
\* addressed holds v.
ForcedTo(f, v) ==
    /\ pc = "done"
    /\ fn = f
    /\ ret = TRUE
    /\ r9_value \in UserPtrs
    /\ mem[FlagAddr(r9_value)] = v

\* C27: with ToggleThread scheduled fairly, once the loop has sampled a
\* rising edge of a key bound only to ForceThirdPerson, the flag byte at
\* capturedValue + 0x38 eventually equals 1 with setThirdPersonView returning
\* true, unless at some moment the captured pointer is not that of a user
\* structure or a flag page is not committed and writable; nobody but the
\* patch writes the flag byte. The same for ForceFirstPerson and 0.
C27_ForcedViewEventuallySet ==
    /\ TpvFired ~> (ForcedTo("setThirdPersonView", 1) \/ PremiseBroken)
    /\ FpvFired ~> (ForcedTo("setFirstPersonView", 0) \/ PremiseBroken)

\* setFirstPersonView, fired in the second cycle, has stored 0 over the 1
\* that setThirdPersonView stored in the first, the premise holding.
C27_Witness ==
    /\ ForcedTo("setFirstPersonView", 0)
    /\ ~PremiseBroken
    /\ cycle = 2
    /\ Len(acc.writes) = 1
    /\ lpc = "in_action"

(* ------------------------------------------------------------------------ *)
(* Claims about the two reads of the cell in a toggle                       *)
(* ------------------------------------------------------------------------ *)

\* setViewState, called by safeToggleViewState, has read the cell.
BothReadsDone == fn = "safeToggleViewState" /\ tg_r9 # -1 /\ r9_value # -1

\* C28: in one toggle action the address safeToggleViewState reads the flag
\* byte from (its r9_value + 0x38) is the address setViewState compares and
\* writes at (its own r9_value + 0x38), whatever the detour stores between
\* the two reads of the cell.
C28_SameAddressInToggle ==
    BothReadsDone => FlagAddr(tg_r9) = FlagAddr(r9_value)

(* ------------------------------------------------------------------------ *)
(* Claims about the storage at unload                                       *)
(* ------------------------------------------------------------------------ *)

\* The step is a load of *g_r9_for_tpv_flag by the executor.
LoadsCell == pc \in {"sv_cell", "tg_cell"} /\ pc' # pc

\* C29: the executor loads *g_r9_for_tpv_flag only while the storage is
\* allocated, however the steps of ToggleThread and of the CleanupResources
\* of a process detach interleave.
C29_NoLoadAfterRelease == [][LoadsCell => storage = "live"]_vars

\* C30: in every reachable state in which the hook is enabled, the
\* captured-pointer storage is allocated and g_r9_for_tpv_flag points to it:
\* the storage is allocated before the hook is enabled and released only
\* after the hook has been disabled.
C30_EnabledHookHasStorage ==
    mh.enabled => storage = "live" /\ g_r9_for_tpv_flag = "storage"

(* ------------------------------------------------------------------------ *)
(* Claims about the values written                                          *)
(* ------------------------------------------------------------------------ *)

\* An action called by the loop is running or has just returned.
LoopActionRuns == lpc = "in_action"

\* Every store attempted so far in the call carries 0 or 1, and so does the
\* value the call is about to store.
WritesAreBoolean ==
    LoopActionRuns =>
        /\ new_state \in {0, 1}
        /\ \A i \in 1..Len(acc.writes) : acc.writes[i].v \in {0, 1}

\* The store of an action leaves 0 or 1 in the byte; the step of
\* safeToggleViewState that reads a byte other than 0 and 1 asks for 0.
WritesBooleanStep ==
    /\ \A a \in MemAddrs :
          (LoopActionRuns /\ pc = "sv_write" /\ pc' # pc /\ mem'[a] # mem[a]) =>
              mem'[a] \in {0, 1}
    /\ (pc = "tg_read" /\ pc' = "sv_ptr" /\ mem[FlagAddr(tg_r9)] \notin {0, 1}) =>
          new_state' = 0

\* C31: every value an action of the toggle loop writes to the flag byte is
\* 0 or 1, whatever value the byte held before; a toggle that reads a value
\* other than 0 and 1 writes 0.
C31_WritesZeroOrOne == []WritesAreBoolean /\ [][WritesBooleanStep]_vars

\* A toggle fired by the loop in the second cycle has read 2, which the game
\* had written before the call, and setViewState has reached its store with
\* 0 as the value to write.
C31_Witness ==
    /\ LoopActionRuns
    /\ fn = "safeToggleViewState"
    /\ pc = "sv_write"
    /\ noise = "none"
    /\ tg_r9 = r9_value
    /\ mem[FlagAddr(r9_value)] = 2
    /\ new_state = 0
    /\ cycle = 2

====
